---- MODULE Spec2Model ----
(***************************************************************************)
(* Token lifecycle of applifting_python_sdk: TokenManager (in-memory token *)
(* + persisted token.json), BearerAuth (httpx auth flow, sync and async),  *)
(* as implemented in src/applifting_python_sdk/client.py.                  *)
(*                                                                         *)
(* Time is the monotonic clock, counted in whole seconds.  A token is a    *)
(* positive integer (a non-empty string in the program), NoToken is None,  *)
(* EmptyToken the empty string.                                            *)
(* The auth endpoint issues a new, never used before token on every 201    *)
(* ("Generates new JWT access token", auth_api_v1_auth_post.py).           *)
(* Every section of code that runs under one of the TokenManager locks and *)
(* makes no network call is one step; a refresh that calls the auth        *)
(* endpoint is two steps (call, answer) and holds its lock in between.     *)
(***************************************************************************)
EXTENDS Integers, Sequences, FiniteSets, TLC

\* ---------------------------------------------------------------- bounds
MaxTime == 2
MaxTtl == 1
MaxIssued == 2
MaxOffersTtl == 1

Procs == {1, 2}

\* Product ids (UUIDs in the program); NoProduct is none of them.
ProductIds == {1, 2}
NoProduct == 0
Tracks == {"sync", "async"}

\* ------------------------------------------------------------- constants
NoToken == 0
HTTP_OK == 200
HTTP_CREATED == 201
HTTP_BAD_REQUEST == 400
HTTP_UNAUTHORIZED == 401
HTTP_NOT_FOUND == 404
HTTP_CONFLICT == 409
HTTP_UNPROCESSABLE == 422
HTTP_SERVER_ERROR == 500
\* A status code http.HTTPStatus has no member for.
HTTP_UNREGISTERED == 520

\* A token written to token.json by another process of the same user: none
\* of those the auth server issues to this process.
ForeignToken == MaxIssued + 1

\* The empty string as a token: the auth endpoint can answer 201 with
\* {"access_token": ""}.
EmptyToken == MaxIssued + 2

\* "if token", "self._access_token and ...": None and "" are false.
Truthy(token) == token \notin {NoToken, EmptyToken}

VARIABLES
    now,                \* time.monotonic()
    access_token,       \* TokenManager._access_token
    expires_at,         \* TokenManager._expires_at
    file,               \* content of ~/.cache/applifting_python_sdk/token.json
    token_ttl_seconds,  \* TokenManager._token_ttl_seconds
    lock,               \* holder of TokenManager._lock / ._async_lock, 0 = free
    track,              \* which concurrency model each caller lives in
    loc,                \* each caller's position, local variables and history
    issued,             \* auth server: tokens issued so far
    offer_cache,        \* _BaseClient._offer_cache: its _ttl and its _cache
    http                \* the facade's _http_client: its hooks, and the trace
                        \* of the exchanges of the call in progress

\* The state of the facade beside its TokenManager.
facade == <<offer_cache, http>>

vars == <<now, access_token, expires_at, file, token_ttl_seconds, lock, track,
          loc, issued, offer_cache, http>>

\* ----------------------------------------------------- persisted record
NoFile == [kind |-> "missing", access_token |-> NoToken, expires_at |-> 0]

\* A JSON object; a key it lacks reads as data.get gives it: access_token as
\* None (NoToken), expires_at as 0.
Record(t, e) == [kind |-> "record", access_token |-> t, expires_at |-> e]

\* Content that is not JSON (also: a file cut short by a failed write).
Garbage == [kind |-> "invalid_json", access_token |-> NoToken, expires_at |-> 0]

\* Valid JSON that is not an object (a list, a number, null).
NotObject == [kind |-> "not_object", access_token |-> NoToken, expires_at |-> 0]

\* A file that exists and cannot be read (permissions).
Unreadable == [kind |-> "unreadable", access_token |-> NoToken, expires_at |-> 0]

Mem(t, e) == [access_token |-> t, expires_at |-> e]

\* The exception _load_token_from_file lets out of its except clause
\* (json.JSONDecodeError, FileNotFoundError, KeyError), "none" when it returns:
\* read_text of an unreadable file raises PermissionError, data.get on JSON
\* that is not an object raises AttributeError.
load_token_from_file_error(f) ==
    IF f.kind = "unreadable" THEN "PermissionError"
    ELSE IF f.kind = "not_object" THEN "AttributeError"
    ELSE "none"

\* Mutant: a record that expires at this very instant is adopted.
load_token_from_file_inclusive(m, f, t) ==
    IF f.kind = "missing" \/ load_token_from_file_error(f) # "none" THEN m
    ELSE IF f.kind = "invalid_json" THEN Mem(NoToken, 0)
    ELSE IF t <= f.expires_at
         THEN Mem(f.access_token, f.expires_at)
         ELSE Mem(NoToken, 0)

\* Mutant: a record saved by a manager with another credential is not adopted.
load_token_from_file_own(m, f, t) ==
    IF f.kind = "missing" \/ load_token_from_file_error(f) # "none" THEN m
    ELSE IF f.kind = "invalid_json" THEN Mem(NoToken, 0)
    ELSE IF t < f.expires_at /\ f.access_token # ForeignToken
         THEN Mem(f.access_token, f.expires_at)
         ELSE Mem(NoToken, 0)

\* Mutant: the record is adopted without looking at its expiry.
load_token_from_file_unchecked(m, f, t) ==
    IF f.kind = "missing" \/ load_token_from_file_error(f) # "none" THEN m
    ELSE Mem(f.access_token, f.expires_at)

\* TokenManager._load_token_from_file: the memory pair after the load (an
\* exception leaves before anything is assigned).
load_token_from_file(m, f, t) ==
    IF f.kind = "missing" \/ load_token_from_file_error(f) # "none" THEN m
    ELSE IF f.kind = "invalid_json" THEN Mem(NoToken, 0)
    ELSE IF t < f.expires_at
         THEN Mem(f.access_token, f.expires_at)
         ELSE Mem(NoToken, 0)

\* How a write of token.json can end: done, refused with the file untouched,
\* or failed after the file was truncated (both raise OSError).
WriteOutcomes == {"written", "refused", "torn"}

\* Mutant: the OSError of a failed write is not caught.
save_token_to_file_error_raises(m, w) ==
    IF Truthy(m.access_token) /\ w # "written" THEN "OSError" ELSE "none"

\* The exception _save_token_to_file lets out: none, OSError is caught.
save_token_to_file_error(m, w) == "none"

\* Mutant: the record is written without its expiry.
save_token_to_file_no_expiry(m, f, w) ==
    IF ~Truthy(m.access_token) THEN f
    ELSE IF w = "written" THEN Record(m.access_token, 0)
    ELSE IF w = "torn" THEN Garbage
    ELSE f

\* TokenManager._save_token_to_file: the file after the save.
save_token_to_file(m, f, w) ==
    IF ~Truthy(m.access_token) THEN f
    ELSE IF w = "written" THEN Record(m.access_token, m.expires_at)
    ELSE IF w = "torn" THEN Garbage
    ELSE f

\* How the unlink of token.json can end: done, or refused with OSError.
DeleteOutcomes == {"deleted", "refused"}

\* The exception _clear_cached_token lets out: none, OSError is caught.
clear_cached_token_error(f, d) == "none"

\* Mutant: the expiry in memory is left as it is.
clear_cached_token_keeps_expiry(m, f, d) ==
    [mem |-> Mem(NoToken, m.expires_at),
     file |-> IF f.kind # "missing" /\ d = "deleted" THEN NoFile ELSE f]

\* TokenManager._clear_cached_token: memory and file after it.
clear_cached_token(m, f, d) ==
    [mem |-> Mem(NoToken, 0),
     file |-> IF f.kind # "missing" /\ d = "deleted" THEN NoFile ELSE f]

\* Mutant: an expired in-memory token is replaced by the persisted record.
get_access_token_reloads(m, f, t) ==
    IF Truthy(m.access_token) /\ t < m.expires_at
    THEN [ret |-> m.access_token, mem |-> m, path |-> "valid", err |-> "none"]
    ELSE LET l == load_token_from_file(m, f, t) IN
         IF Truthy(l.access_token) /\ t < l.expires_at
         THEN [ret |-> l.access_token, mem |-> l, path |-> "loaded", err |-> "none"]
         ELSE [ret |-> NoToken, mem |-> l, path |-> "absent",
               err |-> load_token_from_file_error(f)]

\* Mutant: an expired in-memory token is dropped from memory.
async_get_access_token_clears(m, f, t) ==
    IF Truthy(m.access_token) /\ t < m.expires_at
    THEN [ret |-> m.access_token, mem |-> m, path |-> "valid", err |-> "none"]
    ELSE IF Truthy(m.access_token)
    THEN [ret |-> NoToken, mem |-> Mem(NoToken, 0), path |-> "expired", err |-> "none"]
    ELSE LET l == load_token_from_file(m, f, t) IN
         IF Truthy(l.access_token) /\ t < l.expires_at
         THEN [ret |-> l.access_token, mem |-> l, path |-> "loaded", err |-> "none"]
         ELSE [ret |-> NoToken, mem |-> l, path |-> "absent",
               err |-> load_token_from_file_error(f)]

\* ------------------------------------------------------ get_access_token
get_access_token(m, f, t) ==
    IF Truthy(m.access_token) /\ t < m.expires_at
    THEN [ret |-> m.access_token, mem |-> m, path |-> "valid", err |-> "none"]
    ELSE IF Truthy(m.access_token)
    THEN [ret |-> NoToken, mem |-> m, path |-> "expired", err |-> "none"]
    ELSE LET l == load_token_from_file(m, f, t) IN
         IF Truthy(l.access_token) /\ t < l.expires_at
         THEN [ret |-> l.access_token, mem |-> l, path |-> "loaded", err |-> "none"]
         ELSE [ret |-> NoToken, mem |-> l, path |-> "absent",
               err |-> load_token_from_file_error(f)]

async_get_access_token(m, f, t) ==
    IF Truthy(m.access_token) /\ t < m.expires_at
    THEN [ret |-> m.access_token, mem |-> m, path |-> "valid", err |-> "none"]
    ELSE IF Truthy(m.access_token)
    THEN [ret |-> NoToken, mem |-> m, path |-> "expired", err |-> "none"]
    ELSE LET l == load_token_from_file(m, f, t) IN
         IF Truthy(l.access_token) /\ t < l.expires_at
         THEN [ret |-> l.access_token, mem |-> l, path |-> "loaded", err |-> "none"]
         ELSE [ret |-> NoToken, mem |-> l, path |-> "absent",
               err |-> load_token_from_file_error(f)]

\* ------------------------------------------------------- auth endpoint
\* What a call of POST /api/v1/auth can end in: an HTTP answer (status,
\* whether the body contains "Cannot generate", and whether the body of a 201
\* is the JSON AuthResponse.from_dict accepts) or a transport failure.
AuthOutcomes ==
    { [kind |-> "response", status |-> s, marker |-> mk, parsed |-> TRUE] :
        s \in {HTTP_CREATED, HTTP_BAD_REQUEST, HTTP_UNAUTHORIZED, HTTP_UNPROCESSABLE,
               HTTP_UNREGISTERED},
        mk \in BOOLEAN }
    \cup { [kind |-> "response", status |-> HTTP_CREATED, marker |-> FALSE,
             parsed |-> FALSE] }
    \cup { [kind |-> "transport", status |-> 0, marker |-> FALSE, parsed |-> FALSE] }

\* _build_response converts the status with HTTPStatus(response.status_code),
\* which raises ValueError for a code that is not a member.
HTTPStatus(s) == IF s = HTTP_UNREGISTERED THEN "ValueError" ELSE "none"

\* sync_detailed / asyncio_detailed of the auth operation raise: the transport
\* failed, the status has no HTTPStatus member, or the 201 body did not parse.
AuthCallRaises(o) ==
    \/ o.kind = "transport"
    \/ HTTPStatus(o.status) # "none"
    \/ o.status = HTTP_CREATED /\ ~o.parsed

\* The task of an asynchronous caller is cancelled while it awaits
\* asyncio_detailed: the await raises asyncio.CancelledError.
Cancelled == [kind |-> "cancelled", status |-> 0, marker |-> FALSE, parsed |-> FALSE]

\* Mutant: CancelledError is an Exception, as it was before Python 3.8.
IsException_legacy(k) == TRUE

\* "except Exception" catches k: asyncio.CancelledError derives from
\* BaseException, every other exception of the model from Exception.
IsException(k) == k # "CancelledError"

\* The auth endpoint answers 201 with the empty string as access_token.
GrantedEmpty ==
    [kind |-> "empty_token", status |-> HTTP_CREATED, marker |-> FALSE, parsed |-> TRUE]

\* The auth endpoint issued a token and the client got it.
Granted(o) == ~AuthCallRaises(o) /\ o.status = HTTP_CREATED

\* Statuses the resource endpoints answer with.
ResourceStatuses == {HTTP_OK, HTTP_UNAUTHORIZED, HTTP_SERVER_ERROR}

\* ---------------------------------------------------------- exceptions
\* The classes an exception of each kind is an instance of.
AuthenticationErrorBases == {"AuthenticationError", "AppliftingSDKError"}

\* exceptions.py under src/ does not define TokenRefreshDeniedError; its
\* place in the hierarchy is the one section 7 of the specification gives.
TokenRefreshDeniedErrorBases ==
    {"TokenRefreshDeniedError", "AuthenticationError", "AppliftingSDKError"}

IsInstance(k, cls) ==
    IF k = "TokenRefreshDeniedError" THEN cls \in TokenRefreshDeniedErrorBases
    ELSE IF k = "AuthenticationError" THEN cls \in AuthenticationErrorBases
    ELSE k = cls

\* Mutant: the valid in-memory token is not looked at.
refresh_access_token_always(force, m, t) == [net |-> TRUE, ret |-> NoToken]

\* Mutant: the expiry is the TTL, without the clock.
refresh_access_token_sync_unsafe_no_clock(o, tok, m, f, t, ttl, w) ==
    IF AuthCallRaises(o)
    THEN [kind |-> "AuthenticationError", token |-> NoToken, mem |-> m, file |-> f]
    ELSE IF o.status = HTTP_CREATED
    THEN LET n == Mem(tok, ttl) IN
         [kind |-> "ok", token |-> n.access_token, mem |-> n,
          file |-> save_token_to_file(n, f, w)]
    ELSE IF o.status = HTTP_BAD_REQUEST /\ o.marker
    THEN [kind |-> "TokenRefreshDeniedError", token |-> NoToken, mem |-> m, file |-> f]
    ELSE [kind |-> "AuthenticationError", token |-> NoToken, mem |-> m, file |-> f]

\* Mutant: the marker of a denied refresh is looked for in every answer.
async_refresh_access_token_unsafe_any_status(o, tok, m, f, t, ttl, w) ==
    IF AuthCallRaises(o)
    THEN [kind |-> "AuthenticationError", token |-> NoToken, mem |-> m, file |-> f]
    ELSE IF o.status = HTTP_CREATED
    THEN LET n == Mem(tok, t + ttl) IN
         [kind |-> "ok", token |-> n.access_token, mem |-> n,
          file |-> save_token_to_file(n, f, w)]
    ELSE IF o.marker
    THEN [kind |-> "TokenRefreshDeniedError", token |-> NoToken, mem |-> m, file |-> f]
    ELSE [kind |-> "AuthenticationError", token |-> NoToken, mem |-> m, file |-> f]

\* ------------------------------------------------- refresh_access_token
\* refresh_access_token, before the network: net = FALSE when the valid
\* in-memory token is returned without a call.
refresh_access_token(force, m, t) ==
    IF ~force /\ Truthy(m.access_token) /\ t < m.expires_at
    THEN [net |-> FALSE, ret |-> m.access_token]
    ELSE [net |-> TRUE, ret |-> NoToken]

\* Mutant: a valid token in memory is returned, forced or not.
async_refresh_access_token_unforced(force, m, t) ==
    IF Truthy(m.access_token) /\ t < m.expires_at
    THEN [net |-> FALSE, ret |-> m.access_token]
    ELSE [net |-> TRUE, ret |-> NoToken]

async_refresh_access_token(force, m, t) ==
    IF ~force /\ Truthy(m.access_token) /\ t < m.expires_at
    THEN [net |-> FALSE, ret |-> m.access_token]
    ELSE [net |-> TRUE, ret |-> NoToken]

\* Mutant: a refresh that fails drops the token in memory.
refresh_access_token_sync_unsafe_forgets(o, tok, m, f, t, ttl, w) ==
    IF AuthCallRaises(o)
    THEN [kind |-> "AuthenticationError", token |-> NoToken, mem |-> Mem(NoToken, 0),
          file |-> f]
    ELSE IF o.status = HTTP_CREATED
    THEN LET n == Mem(tok, t + ttl)
             e == save_token_to_file_error(n, w) IN
         [kind |-> IF e = "none" THEN "ok" ELSE e,
          token |-> IF e = "none" THEN n.access_token ELSE NoToken, mem |-> n,
          file |-> save_token_to_file(n, f, w)]
    ELSE IF o.status = HTTP_BAD_REQUEST /\ o.marker
    THEN [kind |-> "TokenRefreshDeniedError", token |-> NoToken, mem |-> Mem(NoToken, 0),
          file |-> f]
    ELSE [kind |-> "AuthenticationError", token |-> NoToken, mem |-> Mem(NoToken, 0),
          file |-> f]

\* _refresh_access_token_sync_unsafe, from the answer o of the auth endpoint
\* on (tok is the token a 201 carries): kind "ok" = the token is stored,
\* saved and returned, any other kind = the exception raised.
refresh_access_token_sync_unsafe(o, tok, m, f, t, ttl, w) ==
    IF AuthCallRaises(o)
    THEN [kind |-> "AuthenticationError", token |-> NoToken, mem |-> m, file |-> f]
    ELSE IF o.status = HTTP_CREATED
    THEN LET n == Mem(tok, t + ttl)
             e == save_token_to_file_error(n, w) IN
         [kind |-> IF e = "none" THEN "ok" ELSE e,
          token |-> IF e = "none" THEN n.access_token ELSE NoToken, mem |-> n,
          file |-> save_token_to_file(n, f, w)]
    ELSE IF o.status = HTTP_BAD_REQUEST /\ o.marker
    THEN [kind |-> "TokenRefreshDeniedError", token |-> NoToken, mem |-> m, file |-> f]
    ELSE [kind |-> "AuthenticationError", token |-> NoToken, mem |-> m, file |-> f]

async_refresh_access_token_unsafe(o, tok, m, f, t, ttl, w) ==
    IF o = Cancelled /\ ~IsException("CancelledError")
    THEN [kind |-> "CancelledError", token |-> NoToken, mem |-> m, file |-> f]
    ELSE IF AuthCallRaises(o) \/ o = Cancelled
    THEN [kind |-> "AuthenticationError", token |-> NoToken, mem |-> m, file |-> f]
    ELSE IF o.status = HTTP_CREATED
    THEN LET n == Mem(tok, t + ttl)
             e == save_token_to_file_error(n, w) IN
         [kind |-> IF e = "none" THEN "ok" ELSE e,
          token |-> IF e = "none" THEN n.access_token ELSE NoToken, mem |-> n,
          file |-> save_token_to_file(n, f, w)]
    ELSE IF o.status = HTTP_BAD_REQUEST /\ o.marker
    THEN [kind |-> "TokenRefreshDeniedError", token |-> NoToken, mem |-> m, file |-> f]
    ELSE [kind |-> "AuthenticationError", token |-> NoToken, mem |-> m, file |-> f]

\* ------------------------------------------------------- caller state
\* op: the operation the caller is in (or has just completed, when pc is
\* "idle"); ctx: who called refresh_access_token; refreshed, bearer: the auth
\* flow's refreshed_in_this_flow and request.headers["Bearer"] (the flow's
\* local token is used in the step that sets it and nowhere after);
\* log: history of the operation's calls, in order:
\*   <<"res", b, "">>      the request was sent with Bearer b (NoToken: no header)
\*   <<"refresh", f, "">>  refresh_access_token was invoked, f = 1 iff force
\*   <<"auth", t, k>>      the auth endpoint was called; k = "pending" while the
\*                         call is in flight, then the kind of its outcome, and
\*                         t = the token it issued
\* resp1, resp2: the statuses received; returned: which response the caller
\* gets; ret, err: return value and raised exception; path: the branch
\* get_access_token took.
\* A list of offers, or None: the empty list is not None.
NoValue == [some |-> FALSE, data |-> <<>>]

List(data) == [some |-> TRUE, data |-> data]

\* Python's None where a string is expected.
None == "None"

\* The attributes of an APIError; NoExc: what was raised is no APIError.
NoExc == [status_code |-> 0, message |-> None, body |-> None]

\* What a caller remembers of its calls of set for one key: the value and the
\* time of the last one, the value of the one before, the time of the first.
NoSet == [set |-> FALSE, value |-> NoValue, timestamp |-> 0,
          prior |-> NoValue, first |-> 0, replaced |-> FALSE]

Noted(s, value, t) ==
    [set |-> TRUE, value |-> value, timestamp |-> t,
     prior |-> s.value, first |-> IF s.set THEN s.first ELSE t, replaced |-> s.set]

\* call: the facade method that is waiting for the flow's response, or the
\* cache method that was called; key: its product id; value: the list of
\* offers it returned or stored; exc: the attributes of the APIError it
\* raised; sets: the calls of set it made, by key; data: the record
\* _load_token_from_file has read; grants: the records (token, expiry) its
\* refreshes were granted; timestamp: the timestamp of the entry get has read.

Blank ==
    [op |-> "none", pc |-> "idle", ctx |-> "none", force |-> FALSE,
     refreshed |-> FALSE, bearer |-> NoToken,
     log |-> <<>>, resp1 |-> 0, resp2 |-> 0, returned |-> 0,
     ret |-> NoToken, err |-> "none", path |-> "none",
     call |-> "none", key |-> NoProduct, value |-> NoValue, exc |-> NoExc,
     sets |-> [k \in ProductIds |-> NoSet], data |-> NoFile, grants |-> {},
     timestamp |-> 0]

Idle(p) == loc[p].pc = "idle" /\ loc[p].call = "none"

\* Mutant: the lock is not waited for.
LockFree_unlocked(p) == TRUE

\* Mutant: the two tracks share one lock.
LockFree_shared(p) == \A t \in Tracks : lock[t] = 0

\* "with self._lock" / "async with self._async_lock" can be entered.
LockFree(p) == lock[track[p]] = 0

\* The two HTTP clients _BaseClient.__init__ makes: the one it hands to the
\* TokenManager, and the one of the facade's generated client.
TokenManagerClient == "auth_client"

FacadeClient == "http_client"

\* Mutant: BearerAuth is installed in every client.
Intercepted_everywhere(client) == TRUE

\* Requests sent through the client go through BearerAuth: auth=self._auth is
\* given to the facade's httpx client only.
Intercepted(client) == client = FacadeClient

\* Where the caller of _refresh_access_token_sync_unsafe is once its request is
\* sent through the client: waiting for the auth endpoint, or, when the
\* request goes through BearerAuth, in get_access_token at the lock it holds.
Sent(client) == IF Intercepted(client) THEN "reenter" ELSE "auth_wait"

\* Mutant: the lock is released only when the body of the with block returns.
Released_on_return(t, kind) == IF kind = "ok" THEN [lock EXCEPT ![t] = 0] ELSE lock

\* The end of "with self._lock" / "async with self._async_lock": the lock of
\* track t is released, whether the body returned or raised (kind).
Released(t, kind) == [lock EXCEPT ![t] = 0]

\* "yield request": the request goes out with the headers it has now.
Yield(l, pc) ==
    [l EXCEPT !.pc = pc, !.log = Append(l.log, <<"res", l.bearer, "">>)]

Invoke(l, ctx, force) ==
    [l EXCEPT !.pc = "call_refresh", !.ctx = ctx, !.force = force,
              !.log = Append(l.log, <<"refresh", IF force THEN 1 ELSE 0, "">>)]

Raise(l, k) == [l EXCEPT !.pc = "idle", !.err = k]

\* Mutant: refreshed_in_this_flow is not set.
auth_flow_refreshed_unmarked(l, r) ==
    IF r.kind = "ok"
    THEN Yield([l EXCEPT !.bearer = IF Truthy(r.token) THEN r.token ELSE @], "sent")
    ELSE IF IsInstance(r.kind, "AuthenticationError")
    THEN Yield(l, "sent")
    ELSE Raise(l, r.kind)

\* Mutant: every 401 is retried, also the one that answers the resent request.
auth_flow_response_again(l, s) ==
    IF s = HTTP_UNAUTHORIZED /\ ~l.refreshed
    THEN Invoke(IF l.pc = "sent" THEN [l EXCEPT !.resp1 = s]
                ELSE [l EXCEPT !.resp2 = s], "retry", TRUE)
    ELSE IF l.pc = "sent"
    THEN [l EXCEPT !.resp1 = s, !.pc = "idle", !.returned = 1]
    ELSE [l EXCEPT !.resp2 = s, !.pc = "idle", !.returned = 2]

\* Mutant: the request is resent with the header it already had.
auth_flow_retry_stale(l, r) ==
    IF r.kind = "ok"
    THEN Yield(l, "resent")
    ELSE IF IsInstance(r.kind, "AuthenticationError")
    THEN [l EXCEPT !.pc = "idle", !.returned = 1]
    ELSE Raise(l, r.kind)

\* --------------------------------------------------- BearerAuth.auth_flow
\* Lines 53-70, g = what get_access_token returned.
auth_flow(l, g) ==
    IF g.err # "none" THEN Raise(l, g.err)
    ELSE IF ~Truthy(g.ret)
    THEN Invoke(l, "pre", FALSE)
    ELSE Yield([l EXCEPT !.bearer = g.ret], "sent")

\* Mutant: a non-forced refresh that failed counts as a refresh of this flow.
auth_flow_refreshed_marks_failure(l, r) ==
    IF r.kind = "ok"
    THEN Yield([l EXCEPT !.refreshed = TRUE,
                         !.bearer = IF Truthy(r.token) THEN r.token ELSE @], "sent")
    ELSE IF IsInstance(r.kind, "AuthenticationError")
    THEN Yield([l EXCEPT !.refreshed = TRUE], "sent")
    ELSE Raise(l, r.kind)

\* Lines 59-70, r = how the non-forced refresh ended.
auth_flow_refreshed(l, r) ==
    IF r.kind = "ok"
    THEN Yield([l EXCEPT !.refreshed = TRUE,
                         !.bearer = IF Truthy(r.token) THEN r.token ELSE @], "sent")
    ELSE IF IsInstance(r.kind, "AuthenticationError")
    THEN Yield(l, "sent")
    ELSE Raise(l, r.kind)

\* Lines 70-73, s = the status of the response sent into the generator; when
\* the generator ends, httpx returns the last response it received.
auth_flow_response(l, s) ==
    IF l.pc = "sent"
    THEN IF s = HTTP_UNAUTHORIZED /\ ~l.refreshed
         THEN Invoke([l EXCEPT !.resp1 = s], "retry", TRUE)
         ELSE [l EXCEPT !.resp1 = s, !.pc = "idle", !.returned = 1]
    ELSE [l EXCEPT !.resp2 = s, !.pc = "idle", !.returned = 2]

\* Lines 74-81, r = how the forced refresh ended.
auth_flow_retry(l, r) ==
    IF r.kind = "ok"
    THEN Yield([l EXCEPT !.bearer = r.token], "resent")
    ELSE IF IsInstance(r.kind, "AuthenticationError")
    THEN [l EXCEPT !.pc = "idle", !.returned = 1]
    ELSE Raise(l, r.kind)

\* Mutant: the failure of the non-forced refresh is not caught.
async_auth_flow_refreshed_raises(l, r) ==
    IF r.kind = "ok"
    THEN Yield([l EXCEPT !.refreshed = TRUE,
                         !.bearer = r.token], "sent")
    ELSE Raise(l, r.kind)

\* Mutant: only the plain AuthenticationError is caught.
async_auth_flow_retry_raises(l, r) ==
    IF r.kind = "ok"
    THEN Yield([l EXCEPT !.bearer = r.token], "resent")
    ELSE IF r.kind = "AuthenticationError"
    THEN [l EXCEPT !.pc = "idle", !.returned = 1]
    ELSE Raise(l, r.kind)

\* --------------------------------------------- BearerAuth.async_auth_flow
async_auth_flow(l, g) ==
    IF g.err # "none" THEN Raise(l, g.err)
    ELSE IF Truthy(g.ret)
    THEN Yield([l EXCEPT !.bearer = g.ret], "sent")
    ELSE Invoke(l, "pre", FALSE)

async_auth_flow_refreshed(l, r) ==
    IF r.kind = "ok"
    THEN Yield([l EXCEPT !.refreshed = TRUE,
                         !.bearer = r.token], "sent")
    ELSE IF IsInstance(r.kind, "AuthenticationError")
    THEN Yield(l, "sent")
    ELSE Raise(l, r.kind)

async_auth_flow_response(l, s) ==
    IF l.pc = "sent"
    THEN IF s = HTTP_UNAUTHORIZED /\ ~l.refreshed
         THEN Invoke([l EXCEPT !.resp1 = s], "retry", TRUE)
         ELSE [l EXCEPT !.resp1 = s, !.pc = "idle", !.returned = 1]
    ELSE [l EXCEPT !.resp2 = s, !.pc = "idle", !.returned = 2]

async_auth_flow_retry(l, r) ==
    IF r.kind = "ok"
    THEN Yield([l EXCEPT !.bearer = r.token], "resent")
    ELSE IF IsInstance(r.kind, "AuthenticationError")
    THEN [l EXCEPT !.pc = "idle", !.returned = 1]
    ELSE Raise(l, r.kind)

\* A direct call of refresh_access_token returns or raises.
Returned(l, r) ==
    IF r.kind = "ok"
    THEN [l EXCEPT !.pc = "idle", !.ret = r.token]
    ELSE Raise(l, r.kind)

\* refresh_access_token hands its result r to whoever called it.
Resume(p, l, r) ==
    IF l.ctx = "direct" THEN Returned(l, r)
    ELSE IF l.ctx = "pre"
    THEN IF track[p] = "sync" THEN auth_flow_refreshed(l, r)
         ELSE async_auth_flow_refreshed(l, r)
    ELSE IF track[p] = "sync" THEN auth_flow_retry(l, r)
         ELSE async_auth_flow_retry(l, r)

SetLast(log, e) == IF log = <<>> THEN log ELSE [log EXCEPT ![Len(log)] = e]

\* The callers that send requests through the facade and whose history (op,
\* log, resp1, resp2, returned, ret, err, path, and the header each request
\* went out with) is recorded; the other callers are other threads or tasks
\* that call the same TokenManager, and keep only what decides their next
\* steps.
Observed == {1}

\* What is kept of a caller's record l: the locals of an operation end with it.
Keep(p, l) ==
    LET live == IF l.pc = "idle"
                THEN [l EXCEPT !.ctx = "none", !.force = FALSE,
                               !.refreshed = FALSE, !.bearer = NoToken]
                ELSE l
    IN IF p \in Observed THEN live
       ELSE [Blank EXCEPT !.pc = live.pc, !.ctx = live.ctx, !.force = live.force,
                          !.refreshed = live.refreshed]

Set(p, l) == [loc EXCEPT ![p] = Keep(p, l)]

\* Foreign records are either expired from the start or valid up to the
\* last instant of the clock.
ForeignExpiries == {0, MaxTime}

\* The records another process of the same user saves.
ForeignRecords == { Record(ForeignToken, e) : e \in ForeignExpiries }

\* What another process, or the user, can leave in token.json.
ForeignFiles ==
    ForeignRecords \cup { Record(NoToken, MaxTime), Garbage, NotObject, Unreadable }

\* -------------------------------------------------------------- OfferCache
NoEntry == [present |-> FALSE, value |-> NoValue, timestamp |-> 0]

\* OfferCache.__init__.
OfferCache(ttl_seconds) == [ttl |-> ttl_seconds, cache |-> [k \in ProductIds |-> NoEntry]]

\* Mutant: an entry is returned whatever its age.
cache_get_ageless(c, key, t) ==
    IF ~c.cache[key].present THEN [value |-> NoValue, cache |-> c]
    ELSE [value |-> c.cache[key].value, cache |-> c]

\* OfferCache.get: what it returns and the cache after it.
cache_get(c, key, t) ==
    IF ~c.cache[key].present THEN [value |-> NoValue, cache |-> c]
    ELSE IF t - c.cache[key].timestamp > c.ttl
    THEN [value |-> NoValue, cache |-> [c EXCEPT !.cache[key] = NoEntry]]
    ELSE [value |-> c.cache[key].value, cache |-> c]

\* Mutant: a set over an entry keeps the entry's timestamp.
cache_set_keeps_timestamp(c, key, value, t) ==
    [c EXCEPT !.cache[key] =
        [present |-> TRUE, value |-> value,
         timestamp |-> IF @.present THEN @.timestamp ELSE t]]

\* OfferCache.set.
cache_set(c, key, value, t) ==
    [c EXCEPT !.cache[key] = [present |-> TRUE, value |-> value, timestamp |-> t]]

\* Mutant: an entry whose age is the TTL has expired.
cache_async_get_strict(c, key, t) ==
    IF ~c.cache[key].present THEN [value |-> NoValue, cache |-> c]
    ELSE IF t - c.cache[key].timestamp >= c.ttl
    THEN [value |-> NoValue, cache |-> [c EXCEPT !.cache[key] = NoEntry]]
    ELSE [value |-> c.cache[key].value, cache |-> c]

\* OfferCache.async_get.
cache_async_get(c, key, t) ==
    IF ~c.cache[key].present THEN [value |-> NoValue, cache |-> c]
    ELSE IF t - c.cache[key].timestamp > c.ttl
    THEN [value |-> NoValue, cache |-> [c EXCEPT !.cache[key] = NoEntry]]
    ELSE [value |-> c.cache[key].value, cache |-> c]

\* OfferCache.async_set.
cache_async_set(c, key, value, t) ==
    [c EXCEPT !.cache[key] = [present |-> TRUE, value |-> value, timestamp |-> t]]

\* TokenManager.__init__ at time 0.
ManagerInit ==
    /\ now = 0
    /\ token_ttl_seconds \in 1..MaxTtl
    /\ file \in {NoFile} \cup ForeignRecords
    /\ LET m == load_token_from_file(Mem(NoToken, 0), file, now) IN
          /\ access_token = m.access_token
          /\ expires_at = m.expires_at
    /\ lock = [t \in Tracks |-> 0]
    /\ track \in [Procs -> Tracks]
    /\ loc = [p \in Procs |-> Blank]
    /\ issued = 0

\* ------------------------------------------------------------------ hooks
\* The hooks a caller can pass as hooks=.
Hooks == {1, 2}

\* transport= among the keyword arguments, or not.
Transports == {"default", "custom"}

\* OffersClient.__init__ / AsyncOffersClient.__init__ from the backend on:
\* event_hooks are the hooks httpx calls as event hooks of _http_client,
\* transport_hooks the hooks its transport calls. A transport the caller
\* passes replaces the RequestsTransport / AioHTTPTransport made with the hooks.
HttpClient(http_backend, transport, hooks) ==
    [hooks |-> hooks,
     event_hooks |-> IF http_backend = "httpx" THEN hooks ELSE {},
     transport_hooks |-> IF http_backend # "httpx" /\ transport = "default"
                         THEN hooks ELSE {},
     trace |-> <<>>]

\* "for hook in hooks: hook.<event>(...)", in the order of the sequence.
Invocations(hooks, event) ==
    [i \in 1..Cardinality(hooks) |->
        <<event, CHOOSE h \in hooks : Cardinality({g \in hooks : g < h}) = i - 1, "">>]

\* One request through _http_client: httpx calls the request event hooks,
\* then the transport, which calls its hooks' on_request and sends.
RequestCalls(c) ==
    Invocations(c.event_hooks, "on_request")
        \o Invocations(c.transport_hooks, "on_request")
        \o <<<<"send", 0, FacadeClient>>>>

\* Its response: the transport calls its hooks' on_response and returns the
\* response, then httpx calls the response event hooks.
ResponseCalls(c) ==
    <<<<"receive", 0, FacadeClient>>>>
        \o Invocations(c.transport_hooks, "on_response")
        \o Invocations(c.event_hooks, "on_response")

\* The exchange of a refresh: the TokenManager's client has neither event
\* hooks nor a transport with hooks.
AuthCalls_trace == <<<<"send", 0, TokenManagerClient>>, <<"receive", 0, TokenManagerClient>>>>

\* A TokenManager and its BearerAuth on their own: the offer cache is empty
\* and stays so, and the facade's client is made with the defaults.
Init ==
    /\ ManagerInit
    /\ offer_cache = OfferCache(0)
    /\ http = HttpClient("httpx", "default", {})

\* ---------------------------------------------------------------- actions
\* TokenManager.get_access_token called directly.
GetAccessToken(p) ==
    /\ Idle(p) /\ track[p] = "sync" /\ LockFree(p)
    /\ LET g == get_access_token(Mem(access_token, expires_at), file, now) IN
          /\ access_token' = g.mem.access_token
          /\ expires_at' = g.mem.expires_at
          /\ loc' = Set(p, [Blank EXCEPT !.op = "get", !.ret = g.ret, !.path = g.path,
                                          !.err = g.err])
    /\ UNCHANGED <<now, file, token_ttl_seconds, lock, track, issued>>
    /\ UNCHANGED facade

AsyncGetAccessToken(p) ==
    /\ Idle(p) /\ track[p] = "async" /\ LockFree(p)
    /\ LET g == async_get_access_token(Mem(access_token, expires_at), file, now) IN
          /\ access_token' = g.mem.access_token
          /\ expires_at' = g.mem.expires_at
          /\ loc' = Set(p, [Blank EXCEPT !.op = "get", !.ret = g.ret, !.path = g.path,
                                          !.err = g.err])
    /\ UNCHANGED <<now, file, token_ttl_seconds, lock, track, issued>>
    /\ UNCHANGED facade

\* The call of caller p arrives while another caller of its track is inside a
\* non-forced refresh (it holds the lock, its call of the auth endpoint is in
\* flight) and no valid token is in memory: p has to wait for that refresh.
Waits(p) ==
    /\ lock[track[p]] # 0
    /\ ~loc[lock[track[p]]].force
    /\ ~(Truthy(access_token) /\ now < expires_at)

\* The forced call of caller p arrives while another caller of its track is
\* inside a forced refresh.
WaitsForced(p) ==
    /\ lock[track[p]] # 0
    /\ loc[lock[track[p]]].force

\* A caller invokes refresh_access_token(force) / async_refresh_access_token(force)
\* directly; it then waits for the lock of its track.  The history notes a
\* non-forced call that arrives during another caller's non-forced refresh,
\* and a forced call that arrives during another caller's forced refresh.
CallRefresh(p, force) ==
    /\ Idle(p)
    /\ LET l == Invoke([Blank EXCEPT !.op = "refresh"], "direct", force) IN
          loc' = Set(p, IF ~force /\ Waits(p)
                        THEN [l EXCEPT !.log = SetLast(@, <<"refresh", 0, "waits">>)]
                        ELSE IF force /\ WaitsForced(p)
                        THEN [l EXCEPT !.log = SetLast(@, <<"refresh", 1, "waits">>)]
                        ELSE l)
    /\ UNCHANGED <<now, access_token, expires_at, file, token_ttl_seconds, lock,
                   track, issued>>
    /\ UNCHANGED facade

\* refresh_access_token, lines 206-215: takes the lock, returns the valid
\* token or sends the request to the auth endpoint.
RefreshAccessToken(p) ==
    /\ loc[p].pc = "call_refresh" /\ track[p] = "sync" /\ LockFree(p)
    /\ LET r == refresh_access_token(loc[p].force, Mem(access_token, expires_at), now) IN
          IF r.net
          THEN /\ lock' = [lock EXCEPT ![track[p]] = p]
               /\ loc' = Set(p, [loc[p] EXCEPT !.pc = Sent(TokenManagerClient),
                                    !.log = Append(@, <<"auth", NoToken, "pending">>)])
          ELSE /\ loc' = Set(p, Resume(p, loc[p], [kind |-> "ok", token |-> r.ret]))
               /\ UNCHANGED lock
    /\ UNCHANGED <<now, access_token, expires_at, file, token_ttl_seconds, track, issued>>
    /\ UNCHANGED facade

AsyncRefreshAccessToken(p) ==
    /\ loc[p].pc = "call_refresh" /\ track[p] = "async" /\ LockFree(p)
    /\ LET r == async_refresh_access_token(loc[p].force, Mem(access_token, expires_at), now) IN
          IF r.net
          THEN /\ lock' = [lock EXCEPT ![track[p]] = p]
               /\ loc' = Set(p, [loc[p] EXCEPT !.pc = Sent(TokenManagerClient),
                                    !.log = Append(@, <<"auth", NoToken, "pending">>)])
          ELSE /\ loc' = Set(p, Resume(p, loc[p], [kind |-> "ok", token |-> r.ret]))
               /\ UNCHANGED lock
    /\ UNCHANGED <<now, access_token, expires_at, file, token_ttl_seconds, track, issued>>
    /\ UNCHANGED facade

\* parsed.access_token of the answer o: a new token, or the empty string.
NewToken(o) == IF o = GrantedEmpty THEN EmptyToken ELSE issued + 1

\* The auth server issues at most MaxIssued tokens.
CanAnswer(o) == (Granted(o) /\ o # GrantedEmpty) => issued < MaxIssued

Issued(o) == IF Granted(o) /\ o # GrantedEmpty THEN issued + 1 ELSE issued

\* The auth endpoint answers (or the transport fails): lines 216-234, then
\* the lock is released and the caller of refresh_access_token goes on.
RefreshAnswer(p, o, w) ==
    /\ loc[p].pc = "auth_wait" /\ track[p] = "sync" /\ CanAnswer(o)
    /\ Granted(o) \/ w = "written"
    /\ LET r == refresh_access_token_sync_unsafe(o, NewToken(o),
                    Mem(access_token, expires_at), file, now, token_ttl_seconds, w) IN
          /\ access_token' = r.mem.access_token
          /\ expires_at' = r.mem.expires_at
          /\ file' = r.file
          /\ loc' = Set(p, Resume(p, [loc[p] EXCEPT !.log =
                                         SetLast(@, <<"auth", r.token, r.kind>>)],
                                  [kind |-> r.kind, token |-> r.token]))
          /\ lock' = Released(track[p], r.kind)
    /\ issued' = Issued(o)
    /\ UNCHANGED <<now, token_ttl_seconds, track>>
    /\ UNCHANGED facade

AsyncRefreshAnswer(p, o, w) ==
    /\ loc[p].pc = "auth_wait" /\ track[p] = "async" /\ CanAnswer(o)
    /\ Granted(o) \/ w = "written"
    /\ LET r == async_refresh_access_token_unsafe(o, NewToken(o),
                    Mem(access_token, expires_at), file, now, token_ttl_seconds, w) IN
          /\ access_token' = r.mem.access_token
          /\ expires_at' = r.mem.expires_at
          /\ file' = r.file
          /\ loc' = Set(p, Resume(p, [loc[p] EXCEPT !.log =
                                         SetLast(@, <<"auth", r.token, r.kind>>)],
                                  [kind |-> r.kind, token |-> r.token]))
          /\ lock' = Released(track[p], r.kind)
    /\ issued' = Issued(o)
    /\ UNCHANGED <<now, token_ttl_seconds, track>>
    /\ UNCHANGED facade

\* The task of caller p is cancelled while its refresh awaits the auth
\* endpoint: the exception travels up through _async_refresh_access_token_unsafe,
\* "async with self._async_lock" and whoever called the refresh.
CancelRefresh(p) ==
    /\ loc[p].pc = "auth_wait" /\ track[p] = "async"
    /\ AsyncRefreshAnswer(p, Cancelled, "written")

\* httpx starts BearerAuth.auth_flow for a request of the facade.  A flow acts
\* on the TokenManager through get_access_token and refresh_access_token only,
\* so what the flows of the other callers do to it is covered by their direct
\* calls.
AuthFlow(p) ==
    /\ p \in Observed
    /\ Idle(p) /\ track[p] = "sync" /\ LockFree(p)
    /\ LET g == get_access_token(Mem(access_token, expires_at), file, now) IN
          /\ access_token' = g.mem.access_token
          /\ expires_at' = g.mem.expires_at
          /\ loc' = Set(p, auth_flow([Blank EXCEPT !.op = "flow", !.path = g.path], g))
    /\ UNCHANGED <<now, file, token_ttl_seconds, lock, track, issued>>
    /\ UNCHANGED facade

AsyncAuthFlow(p) ==
    /\ p \in Observed
    /\ Idle(p) /\ track[p] = "async" /\ LockFree(p)
    /\ LET g == async_get_access_token(Mem(access_token, expires_at), file, now) IN
          /\ access_token' = g.mem.access_token
          /\ expires_at' = g.mem.expires_at
          /\ loc' = Set(p, async_auth_flow([Blank EXCEPT !.op = "flow", !.path = g.path], g))
    /\ UNCHANGED <<now, file, token_ttl_seconds, lock, track, issued>>
    /\ UNCHANGED facade

\* The resource endpoint answers the request the flow yielded.
FlowResponse(p, s) ==
    /\ loc[p].pc \in {"sent", "resent"} /\ track[p] = "sync"
    /\ loc' = Set(p, auth_flow_response(loc[p], s))
    /\ UNCHANGED <<now, access_token, expires_at, file, token_ttl_seconds, lock,
                   track, issued>>
    /\ UNCHANGED facade

AsyncFlowResponse(p, s) ==
    /\ loc[p].pc \in {"sent", "resent"} /\ track[p] = "async"
    /\ loc' = Set(p, async_auth_flow_response(loc[p], s))
    /\ UNCHANGED <<now, access_token, expires_at, file, token_ttl_seconds, lock,
                   track, issued>>
    /\ UNCHANGED facade

\* A caller clears the cached token; _clear_cached_token takes no lock.
ClearCachedToken(p, d) ==
    /\ Idle(p)
    /\ LET c == clear_cached_token(Mem(access_token, expires_at), file, d) IN
          /\ access_token' = c.mem.access_token
          /\ expires_at' = c.mem.expires_at
          /\ file' = c.file
          /\ loc' = Set(p, [Blank EXCEPT !.op = "clear",
                                         !.err = clear_cached_token_error(file, d)])
    /\ UNCHANGED <<now, token_ttl_seconds, lock, track, issued>>
    /\ UNCHANGED facade

\* A new process of the same user constructs its TokenManager over the same
\* token.json: lines 118-123.  The callers of the model are from now on the
\* callers of this manager; when the load raises, so does the constructor.
TokenManagerInit(p) ==
    /\ \A q \in Procs : Idle(q)
    /\ LET m == load_token_from_file(Mem(NoToken, 0), file, now) IN
          /\ access_token' = m.access_token
          /\ expires_at' = m.expires_at
    /\ loc' = [q \in Procs |->
                 IF q = p THEN [Blank EXCEPT !.op = "init",
                                             !.err = load_token_from_file_error(file)]
                 ELSE Blank]
    /\ UNCHANGED <<now, file, token_ttl_seconds, lock, track, issued>>
    /\ UNCHANGED facade

\* ------------------------------------------------------------ the facade
\* The statuses the resource endpoints answer the facade with.
FacadeStatuses ==
    {HTTP_OK, HTTP_CREATED, HTTP_UNAUTHORIZED, HTTP_NOT_FOUND, HTTP_CONFLICT,
     HTTP_SERVER_ERROR, HTTP_UNREGISTERED}

\* The body of a response: "malformed" is one response.json() or from_dict
\* does not accept, "empty" is no content at all; offers is the list a 200 of
\* the offers endpoint carries, id the product id a 201 of the register
\* endpoint carries.
OfferResponses == { [id |-> 1, price |-> 1, items_in_stock |-> 0] }

Bodies ==
    { [kind |-> "json", offers |-> os, id |-> i] :
        os \in {<<>>} \cup { <<o>> : o \in OfferResponses }, i \in ProductIds }
    \cup { [kind |-> k, offers |-> <<>>, id |-> NoProduct] : k \in {"malformed", "empty"} }

\* response.content.decode(errors="ignore"): the empty string, or the text of
\* the content.
decode(body) == IF body.kind = "empty" THEN "" ELSE "content"

\* Mutant: the text goes to the attribute body.
APIError_with_body(status_code, message, body) ==
    [status_code |-> status_code, message |-> "default", body |-> message]

\* APIError.__init__: "message or <default text>".
APIError(status_code, message, body) ==
    [status_code |-> status_code,
     message |-> IF message \in {None, ""} THEN "default" ELSE message,
     body |-> body]

\* Offer.from_offer_response.
from_offer_response(o) == [id |-> o.id, price |-> o.price, items_in_stock |-> o.items_in_stock]

\* The exception sync_detailed / asyncio_detailed of the offers operation raise
\* in _build_response ("none": they return a Response).
get_offers_detailed_error(s, body) ==
    IF HTTPStatus(s) # "none" THEN HTTPStatus(s)
    ELSE IF s = HTTP_OK /\ body.kind # "json" THEN "JSONDecodeError"
    ELSE "none"

\* The same for the register operation.
register_product_detailed_error(s, body) ==
    IF HTTPStatus(s) # "none" THEN HTTPStatus(s)
    ELSE IF s = HTTP_CREATED /\ body.kind # "json" THEN "JSONDecodeError"
    ELSE "none"

\* Mutant: every status that is not a success is an APIError.
handle_get_offers_response_flat(s, body) ==
    IF s = HTTP_OK
    THEN [err |-> "none", exc |-> NoExc,
          value |-> List([i \in DOMAIN body.offers |-> from_offer_response(body.offers[i])])]
    ELSE IF s = HTTP_UNAUTHORIZED
    THEN [err |-> "AuthenticationError", exc |-> NoExc, value |-> NoValue]
    ELSE [err |-> "APIError", exc |-> APIError(s, decode(body), None), value |-> NoValue]

\* Mutant: a product that is not found has no offers.
handle_get_offers_response_lenient(s, body) ==
    IF s = HTTP_OK
    THEN [err |-> "none", exc |-> NoExc,
          value |-> List([i \in DOMAIN body.offers |-> from_offer_response(body.offers[i])])]
    ELSE IF s = HTTP_NOT_FOUND THEN [err |-> "none", exc |-> NoExc, value |-> List(<<>>)]
    ELSE IF s = HTTP_UNAUTHORIZED
    THEN [err |-> "AuthenticationError", exc |-> NoExc, value |-> NoValue]
    ELSE [err |-> "APIError", exc |-> APIError(s, decode(body), None), value |-> NoValue]

\* _BaseClient._handle_get_offers_response.
handle_get_offers_response(s, body) ==
    IF s = HTTP_OK
    THEN [err |-> "none", exc |-> NoExc,
          value |-> List([i \in DOMAIN body.offers |-> from_offer_response(body.offers[i])])]
    ELSE IF s = HTTP_NOT_FOUND
    THEN [err |-> "ProductNotFound", exc |-> APIError(s, "not found", None),
          value |-> NoValue]
    ELSE IF s = HTTP_UNAUTHORIZED
    THEN [err |-> "AuthenticationError", exc |-> NoExc, value |-> NoValue]
    ELSE [err |-> "APIError", exc |-> APIError(s, decode(body), None), value |-> NoValue]

\* Mutant: the id of the product that was sent is returned.
handle_register_product_response_echo(s, body, product_id) ==
    IF s = HTTP_CREATED THEN [err |-> "none", exc |-> NoExc, id |-> product_id]
    ELSE IF s = HTTP_CONFLICT
    THEN [err |-> "ProductAlreadyExists", exc |-> APIError(s, "already exists", None),
          id |-> NoProduct]
    ELSE IF s = HTTP_UNAUTHORIZED
    THEN [err |-> "AuthenticationError", exc |-> NoExc, id |-> NoProduct]
    ELSE [err |-> "APIError", exc |-> APIError(s, decode(body), None), id |-> NoProduct]

\* _BaseClient._handle_register_product_response.
handle_register_product_response(s, body, product_id) ==
    IF s = HTTP_CREATED THEN [err |-> "none", exc |-> NoExc, id |-> body.id]
    ELSE IF s = HTTP_CONFLICT
    THEN [err |-> "ProductAlreadyExists", exc |-> APIError(s, "already exists", None),
          id |-> NoProduct]
    ELSE IF s = HTTP_UNAUTHORIZED
    THEN [err |-> "AuthenticationError", exc |-> NoExc, id |-> NoProduct]
    ELSE [err |-> "APIError", exc |-> APIError(s, decode(body), None), id |-> NoProduct]

\* The classes an exception of the facade is an instance of.
Bases(k) ==
    IF k \in {"ProductNotFound", "ProductAlreadyExists"}
    THEN {k, "APIError", "AppliftingSDKError"}
    ELSE IF k = "APIError" THEN {k, "AppliftingSDKError"}
    ELSE IF k = "AuthenticationError" THEN AuthenticationErrorBases
    ELSE {k}

\* The status of the response httpx hands back when the flow is over.
FinalStatus(l) == IF l.returned = 2 THEN l.resp2 ELSE l.resp1

\* The request of a facade method enters the http client: BearerAuth's flow
\* starts with get_access_token.
StartFlow(p, l) ==
    LET g == IF track[p] = "sync"
             THEN get_access_token(Mem(access_token, expires_at), file, now)
             ELSE async_get_access_token(Mem(access_token, expires_at), file, now)
        f == [l EXCEPT !.path = g.path]
    IN /\ access_token' = g.mem.access_token
       /\ expires_at' = g.mem.expires_at
       /\ loc' = Set(p, IF track[p] = "sync" THEN auth_flow(f, g) ELSE async_auth_flow(f, g))

\* Mutant: an empty cached list counts as no list.
cached_truthy(value) == value.some /\ value.data # <<>>

\* "cached_offers is not None".
cached(value) == value.some

\* What get_offers, or register_product, leaves when it is over: what it was
\* called with, the statuses its request was answered with, and what it
\* returned or raised.
Over(l, op) ==
    [l EXCEPT !.op = op, !.call = "none", !.log = <<>>, !.path = "none"]

\* OffersClient.get_offers / AsyncOffersClient.get_offers up to the request:
\* the cached list is returned, or the request is on its way.
GetOffers(p, k) ==
    /\ Idle(p) /\ LockFree(p)
    /\ LET c == IF track[p] = "sync" THEN cache_get(offer_cache, k, now)
                ELSE cache_async_get(offer_cache, k, now) IN
          /\ offer_cache' = c.cache
          /\ IF cached(c.value)
             THEN /\ loc' = Set(p, [Blank EXCEPT !.op = "get_offers", !.key = k,
                                                 !.value = c.value])
                  /\ UNCHANGED <<access_token, expires_at>>
             ELSE StartFlow(p, [Blank EXCEPT !.op = "flow", !.call = "get_offers",
                                             !.key = k])
    /\ UNCHANGED <<now, file, token_ttl_seconds, lock, track, issued, http>>

\* get_offers from the response on: the response is built and handled, the
\* list is cached and returned, or the exception leaves get_offers.
OffersResponse(p, body) ==
    /\ loc[p].pc = "idle" /\ loc[p].call = "get_offers"
    /\ LET l == loc[p]
           s == FinalStatus(l)
           e == IF l.err # "none" THEN l.err ELSE get_offers_detailed_error(s, body)
           h == handle_get_offers_response(s, body)
           done == Over(l, "get_offers")
       IN IF e # "none"
          THEN /\ loc' = Set(p, [done EXCEPT !.err = e])
               /\ UNCHANGED offer_cache
          ELSE IF h.err # "none"
          THEN /\ loc' = Set(p, [done EXCEPT !.err = h.err, !.exc = h.exc])
               /\ UNCHANGED offer_cache
          ELSE /\ offer_cache' = IF track[p] = "sync"
                                 THEN cache_set(offer_cache, l.key, h.value, now)
                                 ELSE cache_async_set(offer_cache, l.key, h.value, now)
               /\ loc' = Set(p, [done EXCEPT !.value = h.value])
    /\ UNCHANGED <<now, access_token, expires_at, file, token_ttl_seconds, lock, track,
                   issued, http>>

\* OffersClient.register_product / AsyncOffersClient.register_product up to
\* the request.
RegisterProduct(p, k) ==
    /\ Idle(p) /\ LockFree(p)
    /\ StartFlow(p, [Blank EXCEPT !.op = "flow", !.call = "register_product", !.key = k])
    /\ UNCHANGED <<now, file, token_ttl_seconds, lock, track, issued, offer_cache, http>>

\* register_product from the response on.
RegisterResponse(p, body) ==
    /\ loc[p].pc = "idle" /\ loc[p].call = "register_product"
    /\ LET l == loc[p]
           s == FinalStatus(l)
           e == IF l.err # "none" THEN l.err ELSE register_product_detailed_error(s, body)
           h == handle_register_product_response(s, body, l.key)
           done == Over(l, "register_product")
       IN loc' = Set(p, IF e # "none" THEN [done EXCEPT !.err = e]
                        ELSE IF h.err # "none"
                        THEN [done EXCEPT !.err = h.err, !.exc = h.exc]
                        ELSE [done EXCEPT !.ret = h.id])
    /\ UNCHANGED <<now, access_token, expires_at, file, token_ttl_seconds, lock, track,
                   issued, offer_cache, http>>

\* The monotonic clock advances.
Tick ==
    /\ now < MaxTime
    /\ now' = now + 1
    /\ UNCHANGED <<access_token, expires_at, file, token_ttl_seconds, lock, track,
                   loc, issued>>
    /\ UNCHANGED facade

\* Another process of the same user saves its token to token.json.
ExternalWrite(f) ==
    /\ file' = f
    /\ file' # file
    /\ UNCHANGED <<now, access_token, expires_at, token_ttl_seconds, lock, track,
                   loc, issued>>
    /\ UNCHANGED facade

Next ==
    \/ \E p \in Procs : GetAccessToken(p)
    \/ \E p \in Procs : AsyncGetAccessToken(p)
    \/ \E p \in Procs, force \in BOOLEAN : CallRefresh(p, force)
    \/ \E p \in Procs : RefreshAccessToken(p)
    \/ \E p \in Procs : AsyncRefreshAccessToken(p)
    \/ \E p \in Procs, o \in AuthOutcomes : RefreshAnswer(p, o, "written")
    \/ \E p \in Procs, o \in AuthOutcomes : AsyncRefreshAnswer(p, o, "written")
    \/ \E p \in Procs : AuthFlow(p)
    \/ \E p \in Procs : AsyncAuthFlow(p)
    \/ \E p \in Procs, s \in ResourceStatuses : FlowResponse(p, s)
    \/ \E p \in Procs, s \in ResourceStatuses : AsyncFlowResponse(p, s)
    \/ Tick
    \/ \E f \in ForeignRecords : ExternalWrite(f)

\* Several callers of one TokenManager, in one track or in both, over a store
\* that other processes save their records to.
Spec == Init /\ [][Next]_vars

\* Direct calls of get_access_token and refresh_access_token by several
\* callers, every call of the auth endpoint answered in the end.  A caller
\* whose "with self._lock" can be entered without end does enter it; of the
\* two locks only asyncio.Lock wakes its waiters in the order they came, so
\* only a caller of the asynchronous track is sure to enter a lock that is
\* free again and again.
LiveInit == Init /\ file = NoFile

LiveNext ==
    \/ \E p \in Procs : GetAccessToken(p)
    \/ \E p \in Procs : AsyncGetAccessToken(p)
    \/ \E p \in Procs, force \in BOOLEAN : CallRefresh(p, force)
    \/ \E p \in Procs : RefreshAccessToken(p)
    \/ \E p \in Procs : AsyncRefreshAccessToken(p)
    \/ \E p \in Procs, o \in AuthOutcomes : RefreshAnswer(p, o, "written")
    \/ \E p \in Procs, o \in AuthOutcomes : AsyncRefreshAnswer(p, o, "written")
    \/ Tick

LiveFairness ==
    \A p \in Procs :
        /\ WF_vars(RefreshAccessToken(p))
        /\ SF_vars(AsyncRefreshAccessToken(p))
        /\ WF_vars(\E o \in AuthOutcomes : RefreshAnswer(p, o, "written"))
        /\ WF_vars(\E o \in AuthOutcomes : AsyncRefreshAnswer(p, o, "written"))

LiveSpec == LiveInit /\ [][LiveNext]_vars /\ LiveFairness

\* ------------------------------------ the TokenManager, statement by statement
\* The two tracks have a lock each, so a caller of one track and a caller of
\* the other, in different threads, run the statements of get_access_token
\* and refresh_access_token interleaved.  Lines 176-181 (190-197): the tests
\* of get_access_token on the token in memory, under the lock.
ThreadGet(p) ==
    /\ loc[p].pc = "idle" /\ LockFree(p)
    /\ IF Truthy(access_token) /\ now < expires_at
       THEN /\ loc' = [loc EXCEPT ![p].op = "get", ![p].ret = access_token]
            /\ UNCHANGED lock
       ELSE IF Truthy(access_token)
       THEN /\ loc' = [loc EXCEPT ![p].op = "get", ![p].ret = NoToken]
            /\ UNCHANGED lock
       ELSE /\ loc' = [loc EXCEPT ![p].op = "get", ![p].pc = "get_load"]
            /\ lock' = [lock EXCEPT ![track[p]] = p]
    /\ UNCHANGED <<now, access_token, expires_at, file, token_ttl_seconds, track,
                   issued>>
    /\ UNCHANGED facade

\* _load_token_from_file, lines 127-130: the file is looked for and read.
ThreadLoadRead(p) ==
    /\ loc[p].pc = "get_load"
    /\ loc' = [loc EXCEPT ![p].data = file,
                          ![p].pc = IF file.kind = "missing" THEN "get_return"
                                    ELSE "get_assign"]
    /\ UNCHANGED <<now, access_token, expires_at, file, token_ttl_seconds, lock,
                   track, issued>>
    /\ UNCHANGED facade

\* Lines 131-132 and 136: the expiry of the record is tested and the token
\* is assigned.
ThreadLoadAssign(p) ==
    /\ loc[p].pc = "get_assign"
    /\ LET fresh == now < loc[p].data.expires_at IN
          /\ access_token' = IF fresh THEN loc[p].data.access_token ELSE NoToken
          /\ loc' = [loc EXCEPT ![p].pc = "get_expiry",
                                ![p].path = IF fresh THEN "loaded" ELSE "absent"]
    /\ UNCHANGED <<now, expires_at, file, token_ttl_seconds, lock, track, issued>>
    /\ UNCHANGED facade

\* Lines 133 and 137: the expiry is assigned.
ThreadLoadExpiry(p) ==
    /\ loc[p].pc = "get_expiry"
    /\ expires_at' = IF loc[p].path = "loaded" THEN loc[p].data.expires_at ELSE 0
    /\ loc' = [loc EXCEPT ![p].pc = "get_return"]
    /\ UNCHANGED <<now, access_token, file, token_ttl_seconds, lock, track, issued>>
    /\ UNCHANGED facade

\* Lines 185-187 (199-201): the token in memory is tested again and returned,
\* and the lock is released.
ThreadGetReturn(p) ==
    /\ loc[p].pc = "get_return"
    /\ loc' = [loc EXCEPT ![p].pc = "idle",
                          ![p].ret = IF Truthy(access_token) /\ now < expires_at
                                     THEN access_token ELSE NoToken]
    /\ lock' = Released(track[p], "ok")
    /\ UNCHANGED <<now, access_token, expires_at, file, token_ttl_seconds, track,
                   issued>>
    /\ UNCHANGED facade

\* refresh_access_token, lines 206-215 (238-248): the lock is taken, the
\* valid token is returned or the request is sent to the auth endpoint.
ThreadRefresh(p, force) ==
    /\ loc[p].pc = "idle" /\ LockFree(p)
    /\ LET r == refresh_access_token(force, Mem(access_token, expires_at), now) IN
          IF r.net
          THEN /\ loc' = [loc EXCEPT ![p].op = "refresh",
                                     ![p].pc = Sent(TokenManagerClient),
                                     ![p].err = "none"]
               /\ lock' = [lock EXCEPT ![track[p]] = p]
          ELSE /\ loc' = [loc EXCEPT ![p].op = "refresh", ![p].ret = r.ret,
                                     ![p].err = "none"]
               /\ UNCHANGED lock
    /\ UNCHANGED <<now, access_token, expires_at, file, token_ttl_seconds, track,
                   issued>>
    /\ UNCHANGED facade

\* Lines 216-221 and 226-234 (249-254, 259-267): the answer arrives; a 201
\* with a parsed body assigns the token, every other answer raises and the
\* lock is released.
ThreadAnswer(p, o) ==
    /\ loc[p].pc = "auth_wait" /\ CanAnswer(o)
    /\ LET r == refresh_access_token_sync_unsafe(o, NewToken(o),
                    Mem(access_token, expires_at), file, now, token_ttl_seconds,
                    "written") IN
          IF r.kind = "ok"
          THEN /\ access_token' = r.mem.access_token
               /\ loc' = [loc EXCEPT ![p].pc = "store_expiry", ![p].ret = r.token]
               /\ UNCHANGED lock
          ELSE /\ loc' = [loc EXCEPT ![p].pc = "idle", ![p].err = r.kind,
                                     ![p].ret = NoToken]
               /\ lock' = Released(track[p], r.kind)
               /\ UNCHANGED access_token
    /\ issued' = Issued(o)
    /\ UNCHANGED <<now, expires_at, file, token_ttl_seconds, track>>
    /\ UNCHANGED facade

\* Line 222 (255): the expiry is assigned, from the clock as it is now.
ThreadStoreExpiry(p) ==
    /\ loc[p].pc = "store_expiry"
    /\ expires_at' = now + token_ttl_seconds
    /\ loc' = [loc EXCEPT ![p].pc = "save",
                          ![p].grants = @ \cup {Record(loc[p].ret, now + token_ttl_seconds)}]
    /\ UNCHANGED <<now, access_token, file, token_ttl_seconds, lock, track, issued>>
    /\ UNCHANGED facade

\* Lines 223-224 (256-257): _save_token_to_file writes the token and the
\* expiry that are in memory now, the token in memory is returned and the
\* lock is released.
ThreadSave(p) ==
    /\ loc[p].pc = "save"
    /\ file' = save_token_to_file(Mem(access_token, expires_at), file, "written")
    /\ loc' = [loc EXCEPT ![p].pc = "idle", ![p].ret = access_token]
    /\ lock' = Released(track[p], "ok")
    /\ UNCHANGED <<now, access_token, expires_at, token_ttl_seconds, track, issued>>
    /\ UNCHANGED facade

\* A caller of the synchronous track in one thread, a caller of the
\* asynchronous track in the event loop of another, and a writable store.
ThreadInit == Init /\ track[1] = "sync" /\ track[2] = "async"

ThreadNext ==
    \/ \E p \in Procs : ThreadGet(p)
    \/ \E p \in Procs : ThreadLoadRead(p)
    \/ \E p \in Procs : ThreadLoadAssign(p)
    \/ \E p \in Procs : ThreadLoadExpiry(p)
    \/ \E p \in Procs : ThreadGetReturn(p)
    \/ \E p \in Procs, force \in BOOLEAN : ThreadRefresh(p, force)
    \/ \E p \in Procs, o \in AuthOutcomes : ThreadAnswer(p, o)
    \/ \E p \in Procs : ThreadStoreExpiry(p)
    \/ \E p \in Procs : ThreadSave(p)
    \/ Tick

ThreadSpec == ThreadInit /\ [][ThreadNext]_vars

\* Refreshes alone, one caller on each track: the statements of a refresh on
\* the synchronous track interleave with those of one on the asynchronous track.
RefreshRaceNext ==
    \/ \E p \in Procs, force \in BOOLEAN : ThreadRefresh(p, force)
    \/ \E p \in Procs, o \in AuthOutcomes : ThreadAnswer(p, o)
    \/ \E p \in Procs : ThreadStoreExpiry(p)
    \/ \E p \in Procs : ThreadSave(p)
    \/ Tick

RefreshRaceSpec == ThreadInit /\ [][RefreshRaceNext]_vars

\* One caller, and a store that can be damaged, unreadable or unwritable, and
\* that outlives the process: a new process constructs its TokenManager over it.
StoreInit == Init /\ \A p \in Procs : track[p] = track[1]

StoreNext ==
    \/ \E p \in Observed : GetAccessToken(p)
    \/ \E p \in Observed : AsyncGetAccessToken(p)
    \/ \E p \in Observed, force \in BOOLEAN : CallRefresh(p, force)
    \/ \E p \in Observed : RefreshAccessToken(p)
    \/ \E p \in Observed : AsyncRefreshAccessToken(p)
    \/ \E p \in Observed, o \in AuthOutcomes, w \in WriteOutcomes : RefreshAnswer(p, o, w)
    \/ \E p \in Observed, o \in AuthOutcomes, w \in WriteOutcomes :
            AsyncRefreshAnswer(p, o, w)
    \/ \E p \in Observed : AuthFlow(p)
    \/ \E p \in Observed : AsyncAuthFlow(p)
    \/ \E p \in Observed, s \in ResourceStatuses : FlowResponse(p, s)
    \/ \E p \in Observed, s \in ResourceStatuses : AsyncFlowResponse(p, s)
    \/ Tick
    \/ \E f \in ForeignFiles : ExternalWrite(f)
    \/ \E p \in Observed : TokenManagerInit(p)
    \/ \E p \in Observed, d \in DeleteOutcomes : ClearCachedToken(p, d)

StoreSpec == StoreInit /\ [][StoreNext]_vars

\* Asynchronous callers of one TokenManager whose tasks can be cancelled while
\* they refresh.
CancelInit == Init /\ \A p \in Procs : track[p] = "async"

CancelNext ==
    \/ \E p \in Procs : AsyncGetAccessToken(p)
    \/ \E p \in Procs, force \in BOOLEAN : CallRefresh(p, force)
    \/ \E p \in Procs : AsyncRefreshAccessToken(p)
    \/ \E p \in Procs, o \in AuthOutcomes : AsyncRefreshAnswer(p, o, "written")
    \/ \E p \in Procs : CancelRefresh(p)
    \/ \E p \in Procs : AsyncAuthFlow(p)
    \/ \E p \in Procs, s \in ResourceStatuses : AsyncFlowResponse(p, s)
    \/ Tick
    \/ \E f \in ForeignRecords : ExternalWrite(f)

CancelSpec == CancelInit /\ [][CancelNext]_vars

\* One caller, in the synchronous or in the asynchronous track, and an auth
\* endpoint that can also answer with an empty token.
EquivInit == Init /\ \A p \in Procs : track[p] = track[1]

EquivOutcomes == AuthOutcomes \cup {GrantedEmpty}

EquivNext ==
    \/ \E p \in Observed : GetAccessToken(p)
    \/ \E p \in Observed : AsyncGetAccessToken(p)
    \/ \E p \in Observed, force \in BOOLEAN : CallRefresh(p, force)
    \/ \E p \in Observed : RefreshAccessToken(p)
    \/ \E p \in Observed : AsyncRefreshAccessToken(p)
    \/ \E p \in Observed, o \in EquivOutcomes : RefreshAnswer(p, o, "written")
    \/ \E p \in Observed, o \in EquivOutcomes : AsyncRefreshAnswer(p, o, "written")
    \/ \E p \in Observed : AuthFlow(p)
    \/ \E p \in Observed : AsyncAuthFlow(p)
    \/ \E p \in Observed, s \in ResourceStatuses : FlowResponse(p, s)
    \/ \E p \in Observed, s \in ResourceStatuses : AsyncFlowResponse(p, s)
    \/ Tick
    \/ \E f \in ForeignRecords : ExternalWrite(f)

EquivSpec == EquivInit /\ [][EquivNext]_vars

\* One caller of the facade, OffersClient or AsyncOffersClient: its methods
\* send their requests through BearerAuth's flow.
FacadeInit ==
    /\ ManagerInit
    /\ file = NoFile
    /\ token_ttl_seconds = MaxTtl
    /\ \A p \in Procs : track[p] = track[1]
    /\ \E ttl \in 0..MaxOffersTtl : offer_cache = OfferCache(ttl)
    /\ http = HttpClient("httpx", "default", {})

FacadeNext ==
    \/ \E p \in Observed, k \in ProductIds : GetOffers(p, k)
    \/ \E p \in Observed, body \in Bodies : OffersResponse(p, body)
    \/ \E p \in Observed, k \in ProductIds : RegisterProduct(p, k)
    \/ \E p \in Observed, body \in Bodies : RegisterResponse(p, body)
    \/ \E p \in Observed : RefreshAccessToken(p)
    \/ \E p \in Observed : AsyncRefreshAccessToken(p)
    \/ \E p \in Observed, o \in AuthOutcomes : RefreshAnswer(p, o, "written")
    \/ \E p \in Observed, o \in AuthOutcomes : AsyncRefreshAnswer(p, o, "written")
    \/ \E p \in Observed, s \in FacadeStatuses : FlowResponse(p, s)
    \/ \E p \in Observed, s \in FacadeStatuses : AsyncFlowResponse(p, s)
    \/ Tick

FacadeSpec == FacadeInit /\ [][FacadeNext]_vars

\* ------------------------------------------------- the cache, used directly
\* The lists of offers a caller stores.
CacheValues ==
    {List(<<>>)} \cup { List(<<from_offer_response(o)>>) : o \in OfferResponses }

\* The caller after a call of a cache method.
Called(l, call, key, value) == [l EXCEPT !.call = call, !.key = key, !.value = value]

\* OfferCache.set called directly; the method holds the lock throughout.
CacheSet(p, k, v) ==
    /\ loc[p].pc = "idle"
    /\ offer_cache' = cache_set(offer_cache, k, v, now)
    /\ loc' = Set(p, [Called(loc[p], "set", k, v)
                         EXCEPT !.sets[k] = Noted(@, v, now)])
    /\ UNCHANGED <<now, access_token, expires_at, file, token_ttl_seconds, lock,
                   track, issued, http>>

\* OfferCache.get called directly.
CacheGet(p, k) ==
    /\ loc[p].pc = "idle"
    /\ LET g == cache_get(offer_cache, k, now) IN
          /\ offer_cache' = g.cache
          /\ loc' = Set(p, Called(loc[p], "get", k, g.value))
    /\ UNCHANGED <<now, access_token, expires_at, file, token_ttl_seconds, lock,
                   track, issued, http>>

\* OfferCache.async_set called directly.
CacheAsyncSet(p, k, v) ==
    /\ loc[p].pc = "idle"
    /\ offer_cache' = cache_async_set(offer_cache, k, v, now)
    /\ loc' = Set(p, [Called(loc[p], "async_set", k, v)
                         EXCEPT !.sets[k] = Noted(@, v, now)])
    /\ UNCHANGED <<now, access_token, expires_at, file, token_ttl_seconds, lock,
                   track, issued, http>>

\* OfferCache.async_get called directly.
CacheAsyncGet(p, k) ==
    /\ loc[p].pc = "idle"
    /\ LET g == cache_async_get(offer_cache, k, now) IN
          /\ offer_cache' = g.cache
          /\ loc' = Set(p, Called(loc[p], "async_get", k, g.value))
    /\ UNCHANGED <<now, access_token, expires_at, file, token_ttl_seconds, lock,
                   track, issued, http>>

\* One OfferCache and one caller of its four methods.
CacheInit == FacadeInit

CacheNext ==
    \/ \E p \in Observed, k \in ProductIds, v \in CacheValues : CacheSet(p, k, v)
    \/ \E p \in Observed, k \in ProductIds : CacheGet(p, k)
    \/ \E p \in Observed, k \in ProductIds, v \in CacheValues : CacheAsyncSet(p, k, v)
    \/ \E p \in Observed, k \in ProductIds : CacheAsyncGet(p, k)
    \/ Tick

CacheSpec == CacheInit /\ [][CacheNext]_vars

\* ------------------------------------- the cache, statement by statement
\* One caller in a thread (get, set) and one in the event loop of another
\* thread (async_get, async_set): get holds _lock, async_get holds
\* _async_lock, no caller waits for the other, and the statements of the two
\* interleave.
RaceGetName(p) == IF track[p] = "sync" THEN "get" ELSE "async_get"

\* get / async_get, "if key not in self._cache: return None".
RaceGet(p, k) ==
    /\ loc[p].pc = "idle"
    /\ loc' = [loc EXCEPT ![p].call = RaceGetName(p), ![p].key = k,
                          ![p].err = "none", ![p].value = NoValue,
                          ![p].timestamp = 0,
                          ![p].pc = IF offer_cache.cache[k].present
                                    THEN "cache_read" ELSE "idle"]
    /\ UNCHANGED <<now, access_token, expires_at, file, token_ttl_seconds, lock,
                   track, issued, offer_cache, http>>

\* "value, timestamp = self._cache[key]": a key that is gone raises KeyError.
RaceRead(p) ==
    /\ loc[p].pc = "cache_read"
    /\ LET entry == offer_cache.cache[loc[p].key] IN
          loc' = IF entry.present
                 THEN [loc EXCEPT ![p].value = entry.value,
                                  ![p].timestamp = entry.timestamp,
                                  ![p].pc = "cache_test"]
                 ELSE [loc EXCEPT ![p].err = "KeyError", ![p].pc = "idle"]
    /\ UNCHANGED <<now, access_token, expires_at, file, token_ttl_seconds, lock,
                   track, issued, offer_cache, http>>

\* "if time.monotonic() - timestamp > self._ttl", else "return value".
RaceTest(p) ==
    /\ loc[p].pc = "cache_test"
    /\ loc' = [loc EXCEPT ![p].pc = IF now - loc[p].timestamp > offer_cache.ttl
                                    THEN "cache_del" ELSE "idle"]
    /\ UNCHANGED <<now, access_token, expires_at, file, token_ttl_seconds, lock,
                   track, issued, offer_cache, http>>

\* "del self._cache[key]; return None": a key that is gone raises KeyError.
RaceDelete(p) ==
    /\ loc[p].pc = "cache_del"
    /\ IF offer_cache.cache[loc[p].key].present
       THEN /\ offer_cache' = [offer_cache EXCEPT !.cache[loc[p].key] = NoEntry]
            /\ loc' = [loc EXCEPT ![p].value = NoValue, ![p].pc = "idle"]
       ELSE /\ offer_cache' = offer_cache
            /\ loc' = [loc EXCEPT ![p].value = NoValue, ![p].err = "KeyError",
                                  ![p].pc = "idle"]
    /\ UNCHANGED <<now, access_token, expires_at, file, token_ttl_seconds, lock,
                   track, issued, http>>

\* set / async_set: one assignment to the dict.
RaceSet(p, k, v) ==
    /\ loc[p].pc = "idle"
    /\ offer_cache' = IF track[p] = "sync" THEN cache_set(offer_cache, k, v, now)
                      ELSE cache_async_set(offer_cache, k, v, now)
    /\ loc' = [loc EXCEPT ![p].call = IF track[p] = "sync" THEN "set" ELSE "async_set",
                          ![p].key = k, ![p].value = v, ![p].err = "none"]
    /\ UNCHANGED <<now, access_token, expires_at, file, token_ttl_seconds, lock,
                   track, issued, http>>

CacheRaceInit ==
    /\ ManagerInit
    /\ file = NoFile
    /\ token_ttl_seconds = MaxTtl
    /\ track[1] = "sync" /\ track[2] = "async"
    /\ \E ttl \in 0..MaxOffersTtl : offer_cache = OfferCache(ttl)
    /\ http = HttpClient("httpx", "default", {})

CacheRaceNext ==
    \/ \E p \in Procs, k \in ProductIds : RaceGet(p, k)
    \/ \E p \in Procs : RaceRead(p)
    \/ \E p \in Procs : RaceTest(p)
    \/ \E p \in Procs : RaceDelete(p)
    \/ \E p \in Procs, k \in ProductIds, v \in CacheValues : RaceSet(p, k, v)
    \/ Tick

CacheRaceSpec == CacheRaceInit /\ [][CacheRaceNext]_vars

\* ------------------------------------------- a facade made with hooks
\* The backends a facade on track t accepts.
Backends(t) == IF t = "sync" THEN {"httpx", "requests"} ELSE {"httpx", "aiohttp"}

\* A method of the facade sends its request through _http_client: BearerAuth's
\* flow looks for a token; with one the request goes out, without one the
\* flow refreshes first.
HookedCall(p) ==
    /\ loc[p].pc = "idle"
    /\ LET g == IF track[p] = "sync"
                THEN get_access_token(Mem(access_token, expires_at), file, now)
                ELSE async_get_access_token(Mem(access_token, expires_at), file, now)
       IN /\ access_token' = g.mem.access_token
          /\ expires_at' = g.mem.expires_at
          /\ IF Truthy(g.ret)
             THEN /\ loc' = [loc EXCEPT ![p] =
                                [Blank EXCEPT !.call = "hooked", !.bearer = g.ret,
                                              !.pc = "hook_wait"]]
                  /\ http' = [http EXCEPT !.trace = RequestCalls(http)]
             ELSE /\ loc' = [loc EXCEPT ![p] =
                                [Blank EXCEPT !.call = "hooked", !.pc = "hook_auth"]]
                  /\ http' = [http EXCEPT !.trace = <<>>]
    /\ UNCHANGED <<now, file, token_ttl_seconds, lock, track, issued, offer_cache>>

\* The refresh of the flow: the exchange with the auth endpoint goes through
\* the TokenManager's client. After the first refresh the request goes out,
\* with the token or without; after a forced refresh that failed the 401 is
\* returned.
HookedRefresh(p, o) ==
    /\ loc[p].pc = "hook_auth" /\ CanAnswer(o)
    /\ LET m == Mem(access_token, expires_at)
           r == IF track[p] = "sync"
                THEN refresh_access_token_sync_unsafe(o, NewToken(o), m, file, now,
                                                      token_ttl_seconds, "written")
                ELSE async_refresh_access_token_unsafe(o, NewToken(o), m, file, now,
                                                       token_ttl_seconds, "written")
           resend == r.kind = "ok" \/ ~loc[p].force
       IN /\ access_token' = r.mem.access_token
          /\ expires_at' = r.mem.expires_at
          /\ file' = r.file
          /\ loc' = [loc EXCEPT ![p].bearer = r.token,
                                ![p].refreshed = r.kind = "ok" \/ loc[p].force,
                                ![p].pc = IF resend THEN "hook_wait" ELSE "idle"]
          /\ http' = [http EXCEPT !.trace =
                         @ \o AuthCalls_trace
                           \o IF resend THEN RequestCalls(http) ELSE <<>>]
    /\ issued' = Issued(o)
    /\ UNCHANGED <<now, token_ttl_seconds, lock, track, offer_cache>>

\* The response to the request: a 401 in a flow that has not refreshed makes
\* the flow refresh, any other response is the result of the call.
HookedResponse(p, s) ==
    /\ loc[p].pc = "hook_wait"
    /\ http' = [http EXCEPT !.trace = @ \o ResponseCalls(http)]
    /\ loc' = IF s = HTTP_UNAUTHORIZED /\ ~loc[p].refreshed
              THEN [loc EXCEPT ![p].resp1 = s, ![p].force = TRUE, ![p].pc = "hook_auth"]
              ELSE [loc EXCEPT ![p].returned = s, ![p].pc = "idle"]
    /\ UNCHANGED <<now, access_token, expires_at, file, token_ttl_seconds, lock,
                   track, issued, offer_cache>>

\* One caller of a facade made with any backend, with or without a transport
\* of the caller's, and with any hooks.
HookInit ==
    /\ ManagerInit
    /\ file = NoFile
    /\ token_ttl_seconds = MaxTtl
    /\ \A p \in Procs : track[p] = track[1]
    /\ offer_cache = OfferCache(0)
    /\ \E b \in Backends(track[1]), t \in Transports, hooks \in SUBSET Hooks :
          http = HttpClient(b, t, hooks)

HookNext ==
    \/ \E p \in Observed : HookedCall(p)
    \/ \E p \in Observed, o \in AuthOutcomes : HookedRefresh(p, o)
    \/ \E p \in Observed, s \in FacadeStatuses : HookedResponse(p, s)
    \/ Tick

HookSpec == HookInit /\ [][HookNext]_vars

TypeOK ==
    /\ now \in 0..MaxTime
    /\ issued \in 0..MaxIssued
    /\ \A t \in Tracks : lock[t] \in Procs \cup {0}

\* ------------------------------------------------------------ histories
Count(log, type) == Cardinality({ i \in DOMAIN log : log[i][1] = type })

ResCalls(l) == Count(l.log, "res")

AuthCalls(l) == Count(l.log, "auth")

ForcedRefreshes(l) ==
    Cardinality({ i \in DOMAIN l.log : l.log[i] = <<"refresh", 1, "">> })

FlowDone(l) == l.op = "flow" /\ l.pc = "idle"

\* The flow got its first token from get_access_token.
SentCached(l) == l.op = "flow" /\ l.path \in {"valid", "loaded"}

\* The i-th event of the log is a call of the auth endpoint that failed.
FailedAuth(l, i) ==
    /\ i \in DOMAIN l.log
    /\ l.log[i][1] = "auth"
    /\ l.log[i][3] \notin {"ok", "pending"}

\* The flow got its first token from a non-forced refresh that succeeded
\* (by a call of the auth endpoint, or with the token another caller stored).
PreRefreshed(l) ==
    /\ l.op = "flow" /\ Len(l.log) >= 2
    /\ l.log[1] = <<"refresh", 0, "">>
    /\ \/ l.log[2][1] = "auth" /\ l.log[2][3] = "ok"
       \/ l.log[2][1] = "res" /\ l.log[2][2] # NoToken

\* The flow's non-forced refresh failed.
PreRefreshFailed(l) ==
    /\ l.op = "flow"
    /\ l.log # <<>> /\ l.log[1] = <<"refresh", 0, "">>
    /\ FailedAuth(l, 2)

\* The flow's forced refresh failed.
RetryFailed(l) ==
    /\ l.op = "flow"
    /\ \E i \in DOMAIN l.log : l.log[i] = <<"refresh", 1, "">> /\ FailedAuth(l, i + 1)

\* ----------------------------------------------------------------- claims
\* C1: a flow that sent its request with a cached token and got 401, then 200,
\* made exactly these calls, in this order: the request with the cached token,
\* one forced refresh with one call of the auth endpoint, the request with the
\* token that call returned, which is not the token of the first request.
C1_RetryExactlyOnce ==
    \A p \in Observed : LET l == loc[p] IN
        (FlowDone(l) /\ SentCached(l) /\ l.resp1 = HTTP_UNAUTHORIZED /\ l.resp2 = HTTP_OK)
        => /\ Len(l.log) = 4
           /\ l.log[1][1] = "res" /\ l.log[1][2] # NoToken
           /\ l.log[2] = <<"refresh", 1, "">>
           /\ l.log[3][1] = "auth" /\ l.log[3][3] = "ok"
           /\ l.log[4] = <<"res", l.log[3][2], "">>
           /\ l.log[4][2] # l.log[1][2]

C1_Witness ==
    \E p \in Observed : LET l == loc[p] IN
        /\ FlowDone(l) /\ SentCached(l)
        /\ l.resp1 = HTTP_UNAUTHORIZED /\ l.resp2 = HTTP_OK
        /\ ResCalls(l) = 2 /\ AuthCalls(l) = 1

\* C2: whatever the servers answer, a flow sends the request at most twice and
\* invokes refresh_access_token(force=True) at most once; once the resent
\* request is answered the flow is over and that answer, whatever its status,
\* is what the caller gets.
C2_AtMostOneRetry ==
    \A p \in Observed : LET l == loc[p] IN
        l.op = "flow"
        => /\ ResCalls(l) <= 2
           /\ ForcedRefreshes(l) <= 1
           /\ l.resp2 # 0 => /\ l.pc = "idle" /\ l.returned = 2 /\ l.err = "none"
                             /\ ResCalls(l) = 2 /\ ForcedRefreshes(l) = 1
                             /\ l.log[Len(l.log)][1] = "res"

C2_Witness ==
    \E p \in Observed : LET l == loc[p] IN
        /\ FlowDone(l) /\ l.resp1 = HTTP_UNAUTHORIZED /\ l.resp2 = HTTP_UNAUTHORIZED
        /\ l.returned = 2 /\ ResCalls(l) = 2

\* C3: a flow whose token came from a successful refresh before sending does
\* not answer a 401 with a forced refresh or a resend: one request was sent
\* and the 401 is what the caller gets.
C3_NoRetryAfterRefresh ==
    \A p \in Observed : LET l == loc[p] IN
        (PreRefreshed(l) /\ l.resp1 = HTTP_UNAUTHORIZED)
        => /\ l.pc = "idle" /\ l.returned = 1 /\ l.err = "none"
           /\ ResCalls(l) = 1 /\ ForcedRefreshes(l) = 0 /\ l.resp2 = 0
           /\ l.log[Len(l.log)][1] = "res"

C3_Witness ==
    \E p \in Observed : LET l == loc[p] IN
        /\ PreRefreshed(l) /\ l.log[2][1] = "auth"
        /\ FlowDone(l) /\ l.resp1 = HTTP_UNAUTHORIZED /\ l.returned = 1

GetStep(p) == GetAccessToken(p) \/ AsyncGetAccessToken(p)

\* A step in which caller p enters refresh_access_token and takes the lock.
RefreshStep(p) == RefreshAccessToken(p) \/ AsyncRefreshAccessToken(p)

\* The persisted record is one a load adopts at time t.
Adoptable(f, t) == f.kind = "record" /\ f.access_token # NoToken /\ t < f.expires_at

\* C6: get_access_token called while the in-memory token is present but
\* expired returns nothing and leaves the in-memory token and expiry as they
\* are, whatever the persisted record is, a non-expired one included; a flow
\* that starts then goes on to refresh.
C6_ExpiredNotReloaded ==
    [][\A p \in Procs :
        (access_token # NoToken /\ ~(now < expires_at))
        => /\ GetStep(p) => /\ access_token' = access_token
                            /\ expires_at' = expires_at
                            /\ p \in Observed => loc'[p].ret = NoToken
           /\ (AuthFlow(p) \/ AsyncAuthFlow(p))
                => /\ access_token' = access_token
                   /\ expires_at' = expires_at
                   /\ loc'[p].pc = "call_refresh"]_vars

C6_Witness ==
    \E p \in Observed : LET l == loc[p] IN
        /\ l.op = "get" /\ l.path = "expired" /\ l.ret = NoToken
        /\ access_token # NoToken /\ ~(now < expires_at)
        /\ Adoptable(file, now) /\ file.access_token # access_token

\* C7: get_access_token called while the in-memory token is absent reads the
\* persisted record: a record that has not expired becomes the in-memory token
\* and expiry and its token is returned; otherwise nothing is returned and the
\* in-memory token stays absent.
C7_AbsentLoadsStore ==
    [][\A p \in Procs :
        (GetStep(p) /\ access_token = NoToken)
        => IF Adoptable(file, now)
           THEN /\ access_token' = file.access_token
                /\ expires_at' = file.expires_at
                /\ p \in Observed => loc'[p].ret = file.access_token
           ELSE /\ access_token' = NoToken
                /\ p \in Observed => loc'[p].ret = NoToken]_vars

C7_Witness ==
    \E p \in Observed : LET l == loc[p] IN
        /\ l.op = "get" /\ l.path = "loaded"
        /\ l.ret = access_token /\ l.ret = file.access_token
        /\ expires_at = file.expires_at /\ now < expires_at

\* C8: get_access_token and async_get_access_token start no call of the auth
\* endpoint, leave the persisted file as it is, and leave the in-memory token
\* and expiry as they are unless the in-memory token was absent.
C8_GetFrame ==
    [][\A p \in Procs :
        GetStep(p)
        => /\ file' = file
           /\ issued' = issued
           /\ lock' = lock
           /\ \A q \in Procs : loc'[q].pc = "auth_wait" => loc[q].pc = "auth_wait"
           /\ AuthCalls(loc'[p]) = 0
           /\ access_token # NoToken
                => /\ access_token' = access_token
                   /\ expires_at' = expires_at]_vars

C8_Witness ==
    \E p \in Observed : LET l == loc[p] IN
        /\ l.op = "get" /\ l.path = "expired" /\ track[p] = "async"
        /\ access_token # NoToken /\ ~(now < expires_at)
        /\ file.kind = "record" /\ file.access_token = access_token

\* C9: a refresh_access_token(force=False) that finds no valid in-memory token
\* makes one call of the auth endpoint; every refresh_access_token(force=False)
\* made while the in-memory token is valid makes no call, returns that token
\* and leaves memory and file as they are.
C9_RefreshIdempotent ==
    [][\A p \in Procs :
        (RefreshStep(p) /\ ~loc[p].force)
        => IF access_token # NoToken /\ now < expires_at
           THEN /\ UNCHANGED <<access_token, expires_at, file, issued, lock>>
                /\ loc'[p].pc # "auth_wait"
                /\ (p \in Observed /\ loc[p].ctx = "direct")
                     => /\ loc'[p].pc = "idle"
                        /\ loc'[p].ret = access_token
                        /\ loc'[p].err = "none"
                        /\ AuthCalls(loc'[p]) = 0
           ELSE /\ loc'[p].pc = "auth_wait"
                /\ p \in Observed => AuthCalls(loc'[p]) = AuthCalls(loc[p]) + 1]_vars

C9_Witness ==
    \E p \in Observed : LET l == loc[p] IN
        /\ l.op = "refresh" /\ l.pc = "idle"
        /\ l.log = <<<<"refresh", 0, "">>>>
        /\ l.ret = access_token /\ l.ret \in 1..issued
        /\ now < expires_at

\* C10: a successful refresh stores the issued token with expiry = the time of
\* the refresh + token_ttl_seconds, and that token keeps that expiry as long as
\* it is the in-memory token; get_access_token returns the in-memory token at
\* every time before its expiry and nothing at its expiry and later.
C10_ExpiryArithmetic ==
    [][/\ \A p \in Procs :
            (loc[p].pc = "auth_wait" /\ loc'[p].pc # "auth_wait" /\ issued' # issued)
            => /\ access_token' = issued + 1
               /\ expires_at' = now + token_ttl_seconds
               /\ p \in Observed /\ loc[p].ctx = "direct" => loc'[p].ret = issued + 1
       /\ (access_token \in 1..issued /\ access_token' = access_token)
            => expires_at' = expires_at
       /\ \A p \in Observed :
            (GetStep(p) /\ access_token \in 1..issued)
            => loc'[p].ret = IF now < expires_at THEN access_token ELSE NoToken]_vars

C10_Witness ==
    \E p \in Observed : LET l == loc[p] IN
        /\ l.op = "get" /\ l.path = "expired" /\ l.ret = NoToken
        /\ access_token \in 1..issued
        /\ now = expires_at

\* A step in which the auth endpoint grants caller p's refresh a token.
GrantStep(p) == loc[p].pc = "auth_wait" /\ loc'[p].pc # "auth_wait" /\ issued' # issued

\* The persisted record is the one a refresh of this user's TokenManager saved.
Persisted(f) == f.kind = "record" /\ f.access_token \in 1..issued

\* C11: the record a successful refresh saves holds the token and the expiry
\* the refresh stored in memory; a TokenManager constructed over a store that
\* holds such a record, not expired, has that token and that expiry in memory,
\* and get_access_token of a TokenManager just constructed returns the token
\* and leaves the expiry as it is, as long as the token has not expired.
C11_SaveLoadRoundTrip ==
    [][\A p \in Observed :
        /\ (GrantStep(p) /\ file'.access_token = issued + 1)
             => file' = Record(access_token', expires_at')
        /\ (TokenManagerInit(p) /\ Persisted(file) /\ now < file.expires_at)
             => /\ access_token' = file.access_token
                /\ expires_at' = file.expires_at
                /\ loc'[p].err = "none"
        /\ (GetStep(p) /\ loc[p].op = "init" /\ Persisted(file)
              /\ file = Record(access_token, expires_at) /\ now < expires_at)
             => /\ loc'[p].ret = file.access_token
                /\ loc'[p].err = "none"
                /\ expires_at' = file.expires_at]_vars

C11_Witness ==
    \E p \in Observed : LET l == loc[p] IN
        /\ l.op = "init" /\ l.err = "none"
        /\ Persisted(file) /\ file = Record(access_token, expires_at)
        /\ now < expires_at /\ now > 0

\* The persisted record is one whose expiry is not in the future at time t.
Stale(f, t) == f.kind = "record" /\ ~(t < f.expires_at)

\* C12: every load of a record whose expiry is not in the future (by the
\* constructor, by get_access_token, by an auth flow) leaves the in-memory
\* token absent with expiry 0; get_access_token then returns nothing and an
\* auth flow goes on to refresh_access_token before it sends anything; no step
\* makes the token of such a record the in-memory token.
C12_ExpiredRecordNotAdopted ==
    [][\A p \in Observed :
        /\ (TokenManagerInit(p) /\ Stale(file, now))
             => access_token' = NoToken /\ expires_at' = 0
        /\ (GetStep(p) /\ access_token = NoToken /\ Stale(file, now))
             => /\ access_token' = NoToken /\ expires_at' = 0
                /\ loc'[p].ret = NoToken /\ loc'[p].err = "none"
        /\ ((AuthFlow(p) \/ AsyncAuthFlow(p)) /\ access_token = NoToken /\ Stale(file, now))
             => /\ access_token' = NoToken /\ expires_at' = 0
                /\ loc'[p].pc = "call_refresh"
                /\ loc'[p].log = <<<<"refresh", 0, "">>>>
        /\ (Stale(file, now) /\ file.access_token # NoToken
              /\ access_token # file.access_token)
             => access_token' # file.access_token]_vars

C12_Witness ==
    \E p \in Observed : LET l == loc[p] IN
        /\ l.op = "flow" /\ l.pc = "call_refresh" /\ l.path = "absent"
        /\ Stale(file, now) /\ file.access_token = ForeignToken
        /\ file.expires_at = now /\ now > 0
        /\ access_token = NoToken /\ expires_at = 0

\* A step in which the persisted file is read: by the constructor, or by
\* get_access_token (called directly or by an auth flow) when no token is in
\* memory.
LoadStep(p) ==
    \/ TokenManagerInit(p)
    \/ access_token = NoToken /\ (GetStep(p) \/ AuthFlow(p) \/ AsyncAuthFlow(p))

\* C13: a load raises nothing, and a load of a file that is missing,
\* unreadable, not JSON, or JSON without the expected fields or shape leaves
\* the in-memory token absent with expiry 0 and get_access_token returns
\* nothing.
C13_LoadNeverRaises ==
    [][\A p \in Observed :
        LoadStep(p)
        => /\ loc'[p].err = "none"
           /\ (file.kind # "record" \/ file.access_token = NoToken)
                => /\ access_token' = NoToken /\ expires_at' = 0
                   /\ loc'[p].ret = NoToken]_vars

\* C14: when the write of the record fails (the file is left as it was, or
\* cut short), the refresh that was granted a token still stores it with its
\* expiry and hands it to its caller without raising: a direct call returns
\* it, an auth flow sends the request with it.
C14_UnwritableStore ==
    [][\A p \in Observed :
        (GrantStep(p) /\ file' # Record(issued + 1, now + token_ttl_seconds))
        => /\ access_token' = issued + 1
           /\ expires_at' = now + token_ttl_seconds
           /\ file' \in {file, Garbage}
           /\ loc'[p].err = "none"
           /\ loc[p].ctx = "direct" => loc'[p].pc = "idle" /\ loc'[p].ret = issued + 1
           /\ loc[p].ctx # "direct"
                => /\ loc'[p].pc \in {"sent", "resent"}
                   /\ loc'[p].bearer = issued + 1]_vars

C14_Witness ==
    \E p \in Observed : LET l == loc[p] IN
        /\ l.op = "refresh" /\ l.pc = "idle" /\ l.err = "none"
        /\ l.ret = access_token /\ access_token \in 1..issued
        /\ now < expires_at
        /\ file = NoFile

\* The kind a direct refresh_access_token ended with.
Ended(l) == IF l.err = "none" THEN "ok" ELSE l.err

Waited(l) == l.op = "refresh" /\ l.log # <<>> /\ l.log[1] = <<"refresh", 0, "waits">>

\* C16 as stated: a refresh_access_token(force=False) that arrived during
\* another caller's non-forced refresh, with no valid token in memory, makes no
\* call of the auth endpoint - the one call is the first caller's - and returns
\* a token.
C16_ExactlyOneAuthCall ==
    \A p \in Observed : LET l == loc[p] IN
        (Waited(l) /\ l.pc # "call_refresh")
        => /\ AuthCalls(l) = 0
           /\ l.pc = "idle" /\ l.err = "none" /\ l.ret # NoToken

\* C16 amended: within one track one caller at a time is inside a refresh, and
\* it holds the lock from before its call of the auth endpoint until after the
\* answer; a caller that arrives meanwhile does nothing until the lock is
\* free.  When it then gets the lock, a non-forced refresh makes no call and
\* returns the token in memory if that token is present and not expired, and
\* makes a call of its own if it is not (the first caller's call failed, or
\* its token has expired since).
C16_RefreshSerialized ==
    [][/\ \A p, q \in Procs :
            (p # q /\ track[p] = track[q]) => ~(loc[p].pc = "auth_wait" /\ loc[q].pc = "auth_wait")
       /\ \A p \in Procs :
            /\ loc[p].pc = "auth_wait" => lock[track[p]] = p
            /\ (loc[p].pc = "call_refresh" /\ lock[track[p]] # 0) => loc'[p] = loc[p]
       /\ \A p \in Observed :
            (RefreshStep(p) /\ Waited(loc[p]))
            => IF access_token # NoToken /\ now < expires_at
               THEN /\ loc'[p].pc = "idle" /\ loc'[p].err = "none"
                    /\ loc'[p].ret = access_token
                    /\ AuthCalls(loc'[p]) = 0
                    /\ UNCHANGED <<access_token, expires_at, file, issued, lock>>
               ELSE /\ loc'[p].pc = "auth_wait" /\ lock'[track[p]] = p
                    /\ AuthCalls(loc'[p]) = 1]_vars

C16_Witness ==
    \E p \in Observed : LET l == loc[p] IN
        /\ Waited(l) /\ l.pc = "idle" /\ l.err = "none"
        /\ AuthCalls(l) = 0
        /\ l.ret = access_token /\ access_token \in 1..issued
        /\ \A q \in Procs : track[q] = track[p]

\* ------------------------------------------------------------ the facade
\* The requests the resource endpoint answered in caller's operation l: every
\* request the flow sends is answered.
Requests(l) == (IF l.resp1 # 0 THEN 1 ELSE 0) + (IF l.resp2 # 0 THEN 1 ELSE 0)

\* A step in which get_offers of caller p gets its response and ends.
OffersEnd(p) == \E body \in Bodies : OffersResponse(p, body)

\* The last operation of caller p was get_offers(k), it fetched the list and
\* returned it.
JustFetched(p, k) ==
    /\ loc[p].op = "get_offers" /\ loc[p].key = k
    /\ loc[p].err = "none" /\ Requests(loc[p]) > 0

\* The age of the entry of product k.
Age(k) == now - offer_cache.cache[k].timestamp

\* get_offers returned the list v from the cache.
Hit(l, k, v) ==
    /\ l.op = "get_offers" /\ l.key = k /\ l.call = "none" /\ l.pc = "idle"
    /\ l.err = "none" /\ l.value = v /\ Requests(l) = 0

\* C17 as stated: get_offers called twice for the same product id within the
\* offers TTL issues exactly one call to the offers endpoint and returns equal
\* results both times; a call made after the TTL has elapsed goes to the
\* offers endpoint again.
C17_ExactlyOneCall ==
    [][\A p \in Observed, k \in ProductIds :
        /\ (GetOffers(p, k) /\ JustFetched(p, k) /\ Age(k) <= offer_cache.ttl)
             => /\ Hit(loc'[p], k, loc[p].value)
                /\ Requests(loc[p]) + Requests(loc'[p]) = 1
        /\ (GetOffers(p, k) /\ JustFetched(p, k) /\ Age(k) > offer_cache.ttl)
             => loc'[p].call = "get_offers"]_vars

\* C17, amended: a get_offers that fetches the list returns the list it
\* stores in the cache, stamped with the time of the store, after one request
\* to the offers endpoint, or two when the first was answered 401 and the flow
\* sent it again; a get_offers for a product whose entry is no older than the
\* TTL sends no request, returns the list of the entry and leaves the cache as
\* it is; a get_offers for a product whose entry is older than the TTL
\* removes the entry, returns nothing from it and goes on to the request.
C17_CachedWithinTtl ==
    [][\A p \in Observed, k \in ProductIds :
        /\ (OffersEnd(p) /\ loc[p].key = k /\ loc'[p].err = "none")
             => /\ offer_cache'.cache[k] =
                      [present |-> TRUE, value |-> loc'[p].value, timestamp |-> now]
                /\ loc'[p].value.some
                /\ Requests(loc'[p]) \in {1, 2}
                /\ Requests(loc'[p]) = 2 => loc'[p].resp1 = HTTP_UNAUTHORIZED
        /\ (GetOffers(p, k) /\ offer_cache.cache[k].present /\ Age(k) <= offer_cache.ttl)
             => /\ Hit(loc'[p], k, offer_cache.cache[k].value)
                /\ offer_cache' = offer_cache
        /\ (GetOffers(p, k) /\ offer_cache.cache[k].present /\ Age(k) > offer_cache.ttl)
             => /\ ~offer_cache'.cache[k].present
                /\ loc'[p].call = "get_offers"
                /\ loc'[p].value = NoValue]_vars

\* The list was returned from an entry that was stored at an earlier instant.
C17_Witness ==
    \E p \in Observed, k \in ProductIds :
        /\ offer_cache.cache[k].present
        /\ offer_cache.cache[k].timestamp < now
        /\ Hit(loc[p], k, offer_cache.cache[k].value)

\* The last operation of caller p was get_offers(k) and it raised.
JustFailed(p, k) ==
    /\ loc[p].op = "get_offers" /\ loc[p].key = k /\ loc[p].err # "none"

\* C18: a get_offers that ends in an error, whatever the status or the
\* exception, leaves the cache as it is, with no entry for its product; an
\* entry is written only in the step in which a get_offers that was answered
\* 200 returns its list; the next get_offers for the product of a failed one
\* is not answered from the cache: it goes through the request flow, and sends
\* its request at once when the token in memory is valid.
C18_CacheOnlyOnSuccess ==
    [][\A p \in Observed, k \in ProductIds :
        /\ (OffersEnd(p) /\ loc[p].key = k /\ loc'[p].err # "none")
             => /\ offer_cache' = offer_cache
                /\ ~offer_cache'.cache[k].present
        /\ (offer_cache'.cache[k].present
              /\ offer_cache'.cache[k] # offer_cache.cache[k])
             => /\ OffersEnd(p) /\ loc[p].key = k
                /\ loc[p].err = "none" /\ FinalStatus(loc[p]) = HTTP_OK
                /\ loc'[p].err = "none"
        /\ (GetOffers(p, k) /\ JustFailed(p, k))
             => /\ loc'[p].call = "get_offers"
                /\ loc'[p].value = NoValue
                /\ (access_token # NoToken /\ now < expires_at)
                     => /\ loc'[p].pc = "sent"
                        /\ loc'[p].bearer = access_token]_vars

\* get_offers of one product raised ProductNotFound with the list of the other
\* product in the cache: the cache has that entry and no other.
C18_Witness ==
    \E p \in Observed, k \in ProductIds, j \in ProductIds :
        /\ loc[p].op = "get_offers" /\ loc[p].key = k /\ loc[p].call = "none"
        /\ loc[p].err = "ProductNotFound" /\ loc[p].resp1 = HTTP_NOT_FOUND
        /\ ~offer_cache.cache[k].present
        /\ j # k /\ offer_cache.cache[j].present

\* A step in which register_product of caller p gets its response and ends.
RegisterEnd(p) == \E body \in Bodies : RegisterResponse(p, body)

\* C19: register_product maps the final status of its response: 201 with a
\* parsed body returns the id of the response, 409 raises ProductAlreadyExists,
\* 401 raises AuthenticationError, every other status raises APIError.
C19_RegisterStatusMapping ==
    [][\A p \in Observed, body \in Bodies :
        (RegisterResponse(p, body) /\ loc[p].err = "none")
        => LET s == FinalStatus(loc[p]) IN
            /\ (s = HTTP_CREATED /\ body.kind = "json")
                 => loc'[p].err = "none" /\ loc'[p].ret = body.id
            /\ s = HTTP_CONFLICT => loc'[p].err = "ProductAlreadyExists"
            /\ s = HTTP_UNAUTHORIZED => loc'[p].err = "AuthenticationError"
            /\ s \notin {HTTP_CREATED, HTTP_CONFLICT, HTTP_UNAUTHORIZED}
                 => loc'[p].err = "APIError"]_vars

\* C20: on a miss get_offers maps the final status of its response: 200 with
\* a parsed list returns the list of offers and stores it in the cache, 404
\* raises ProductNotFound, 401 raises AuthenticationError, every other status
\* raises APIError; on a hit no request is sent and no error is raised.
C20_OffersStatusMapping ==
    [][\A p \in Observed, k \in ProductIds, body \in Bodies :
        /\ (OffersResponse(p, body) /\ loc[p].key = k /\ loc[p].err = "none")
            => LET s == FinalStatus(loc[p]) IN
                /\ (s = HTTP_OK /\ body.kind = "json")
                     => /\ loc'[p].err = "none"
                        /\ loc'[p].value =
                             List([i \in DOMAIN body.offers |->
                                     from_offer_response(body.offers[i])])
                        /\ offer_cache'.cache[k].present
                        /\ offer_cache'.cache[k].value = loc'[p].value
                /\ s = HTTP_NOT_FOUND => loc'[p].err = "ProductNotFound"
                /\ s = HTTP_UNAUTHORIZED => loc'[p].err = "AuthenticationError"
                /\ s \notin {HTTP_OK, HTTP_NOT_FOUND, HTTP_UNAUTHORIZED}
                     => loc'[p].err = "APIError"
        /\ (GetOffers(p, k) /\ cached(cache_get(offer_cache, k, now).value))
            => Hit(loc'[p], k, offer_cache.cache[k].value)]_vars

\* C21: ProductAlreadyExists and ProductNotFound carry the status code of the
\* response that caused them; the catch-all APIError carries the status code
\* of its response and, in its attribute body, the content of that response.
C21_ErrorsCarryStatusAndBody ==
    [][\A p \in Observed, body \in Bodies :
        ((OffersResponse(p, body) \/ RegisterResponse(p, body)) /\ loc[p].err = "none")
        => /\ loc'[p].err \in {"ProductNotFound", "ProductAlreadyExists"}
                => loc'[p].exc.status_code = FinalStatus(loc[p])
           /\ loc'[p].err = "APIError"
                => /\ loc'[p].exc.status_code = FinalStatus(loc[p])
                   /\ loc'[p].exc.body = decode(body)]_vars

\* C22: get and async_get, as get_offers calls them, return the stored list
\* iff now - timestamp <= ttl, an age of exactly ttl included, and then leave
\* the cache as it is; a get that finds the entry older than ttl deletes that
\* entry, no other, and returns None; an entry disappears in no other step.
C22_ValidIffWithinTtl ==
    [][\A p \in Observed, k \in ProductIds :
        LET entry == offer_cache.cache[k] IN
        /\ (GetOffers(p, k) /\ entry.present)
             => /\ (Age(k) <= offer_cache.ttl) <=> Hit(loc'[p], k, entry.value)
                /\ Age(k) <= offer_cache.ttl => offer_cache' = offer_cache
                /\ Age(k) > offer_cache.ttl
                     => /\ offer_cache' = [offer_cache EXCEPT !.cache[k] = NoEntry]
                        /\ loc'[p].value = NoValue
        /\ (entry.present /\ ~offer_cache'.cache[k].present)
             => GetOffers(p, k) /\ Age(k) > offer_cache.ttl]_vars

\* The list was returned from an entry whose age is the TTL, after time has
\* passed.
C22_Witness ==
    \E p \in Observed, k \in ProductIds :
        /\ offer_cache.ttl > 0
        /\ offer_cache.cache[k].present
        /\ Age(k) = offer_cache.ttl
        /\ Hit(loc[p], k, offer_cache.cache[k].value)

\* C23: when the task of an asynchronous caller is cancelled while its refresh
\* awaits the auth endpoint, the caller gets CancelledError and no
\* AuthenticationError, the async lock is free, the token in memory, its
\* expiry and the persisted record are as they were, and the operation is
\* over: it sends nothing, returns no response and makes no further call.
C23_CancelPropagates ==
    [][\A p \in Procs :
        CancelRefresh(p)
        => /\ lock'["async"] = 0
           /\ access_token' = access_token /\ expires_at' = expires_at
           /\ file' = file /\ issued' = issued
           /\ loc'[p].pc = "idle"
           /\ p \in Observed
                => /\ loc'[p].err = "CancelledError"
                   /\ loc'[p].ret = NoToken
                   /\ loc'[p].returned = 0
                   /\ loc'[p].log =
                        SetLast(loc[p].log, <<"auth", NoToken, "CancelledError">>)]_vars

\* A flow was cancelled in its forced refresh, after a 401, with a token in
\* memory: the lock is free.
C23_Witness ==
    \E p \in Observed : LET l == loc[p] IN
        /\ l.op = "flow" /\ l.pc = "idle" /\ l.err = "CancelledError"
        /\ l.resp1 = HTTP_UNAUTHORIZED /\ ForcedRefreshes(l) = 1
        /\ access_token # NoToken
        /\ lock["async"] = 0

\* C24: the synchronous and the asynchronous auth flow are equivalent: in
\* every state a flow can be in, and for every answer of the auth endpoint and
\* of the resource endpoint, the step of the one track and the step of the
\* other give the same result, the same token state, the same refresh call
\* and the same request with the same Bearer.
C24_TracksEquivalent ==
    \A p \in Observed :
        LET l == loc[p]
            m == Mem(access_token, expires_at)
            g == get_access_token(m, file, now)
            start == [Blank EXCEPT !.op = "flow", !.path = g.path]
        IN /\ g = async_get_access_token(m, file, now)
           /\ auth_flow(start, g) = async_auth_flow(start, g)
           /\ \A force \in BOOLEAN :
                refresh_access_token(force, m, now) = async_refresh_access_token(force, m, now)
           /\ l.pc = "auth_wait"
                => \A o \in EquivOutcomes :
                    LET rs == refresh_access_token_sync_unsafe(
                                  o, NewToken(o), m, file, now, token_ttl_seconds, "written")
                        ra == async_refresh_access_token_unsafe(
                                  o, NewToken(o), m, file, now, token_ttl_seconds, "written")
                        r == [kind |-> rs.kind, token |-> rs.token]
                    IN /\ rs = ra
                       /\ l.ctx = "pre"
                            => auth_flow_refreshed(l, r) = async_auth_flow_refreshed(l, r)
                       /\ l.ctx = "retry"
                            => auth_flow_retry(l, r) = async_auth_flow_retry(l, r)
           /\ l.pc \in {"sent", "resent"}
                => \A s \in ResourceStatuses :
                    auth_flow_response(l, s) = async_auth_flow_response(l, s)

\* C25: refresh_access_token(force=True) calls the auth endpoint whatever the
\* token in memory is, a valid one included; when the endpoint grants a token,
\* that token and the expiry now + token_ttl_seconds replace the pair in
\* memory and the token is returned.
C25_ForcedRefresh ==
    [][\A p \in Procs :
        /\ (RefreshStep(p) /\ loc[p].force)
             => /\ loc'[p].pc = "auth_wait"
                /\ lock'[track[p]] = p
                /\ UNCHANGED <<access_token, expires_at, file>>
                /\ p \in Observed => AuthCalls(loc'[p]) = AuthCalls(loc[p]) + 1
        /\ (GrantStep(p) /\ loc[p].force)
             => /\ access_token' = issued + 1
                /\ access_token' # access_token
                /\ expires_at' = now + token_ttl_seconds
                /\ (p \in Observed /\ loc[p].ctx = "direct")
                     => /\ loc'[p].pc = "idle" /\ loc'[p].err = "none"
                        /\ loc'[p].ret = issued + 1]_vars

\* A forced refresh, called directly, has returned the second token at the
\* instant the first one was issued: the first was still valid.
C25_Witness ==
    \E p \in Observed : LET l == loc[p] IN
        /\ l.op = "refresh" /\ l.pc = "idle" /\ l.err = "none"
        /\ l.log = <<<<"refresh", 1, "">>, <<"auth", 2, "ok">>>>
        /\ l.ret = 2 /\ access_token = 2 /\ issued = 2
        /\ now = 0 /\ expires_at = token_ttl_seconds

\* Caller p's refresh_access_token(force=True) arrived while another caller's
\* forced refresh was in flight.
WaitedForced(l) ==
    l.op = "refresh" /\ l.log # <<>> /\ l.log[1] = <<"refresh", 1, "waits">>

\* C26: forced refreshes of one track are serialized by the track's lock: at
\* most one call of the auth endpoint of a track is in flight, and the caller
\* in flight holds the lock; every forced caller makes a call of its own when
\* it gets the lock, one that waited for another forced refresh included, and
\* a call that is granted returns the token it was granted and raises nothing.
C26_ForcedSerialized ==
    [][/\ \A t \in Tracks :
            Cardinality({ p \in Procs : track[p] = t /\ loc[p].pc = "auth_wait" }) <= 1
       /\ \A p \in Procs :
            /\ (loc[p].pc = "auth_wait" /\ loc[p].force) => lock[track[p]] = p
            /\ (RefreshStep(p) /\ loc[p].force)
                 => /\ lock[track[p]] = 0
                    /\ loc'[p].pc = "auth_wait"
       /\ \A p \in Observed :
            /\ (RefreshStep(p) /\ WaitedForced(loc[p]))
                 => AuthCalls(loc[p]) = 0 /\ AuthCalls(loc'[p]) = 1
            /\ (GrantStep(p) /\ WaitedForced(loc[p]))
                 => /\ issued' = issued + 1
                    /\ loc'[p].pc = "idle" /\ loc'[p].err = "none"
                    /\ loc'[p].ret = issued'
                    /\ AuthCalls(loc'[p]) = 1]_vars

\* Two forced refreshes of one track overlapped and both were granted: the
\* one that waited has returned the second token after one call of its own.
C26_Witness ==
    \E p \in Observed : LET l == loc[p] IN
        /\ l.pc = "idle" /\ l.err = "none"
        /\ l.log = <<<<"refresh", 1, "waits">>, <<"auth", 2, "ok">>>>
        /\ l.ret = 2 /\ issued = 2
        /\ \A q \in Procs : track[q] = track[p]

\* The other track.
Other(t) == IF t = "sync" THEN "async" ELSE "sync"

\* C27: the two tracks have a lock each over the same token fields: a caller
\* whose own track's lock is free can enter get_access_token and
\* refresh_access_token whoever holds the lock of the other track, a step of
\* one track leaves the lock of the other track as it is, and a refresh of
\* either track that is granted a token writes it to the one token in memory.
C27_TracksIndependent ==
    [][\A p \in Procs :
        /\ (loc[p].pc = "call_refresh" /\ lock[track[p]] = 0) => ENABLED RefreshStep(p)
        /\ (Idle(p) /\ lock[track[p]] = 0) => ENABLED GetStep(p)
        /\ (RefreshStep(p) \/ GetStep(p) \/ GrantStep(p))
             => lock'[Other(track[p])] = lock[Other(track[p])]
        /\ GrantStep(p) => access_token' = issued + 1]_vars

\* A synchronous and an asynchronous refresh are in flight at the same time,
\* each with its own lock.
C27_Witness ==
    \E p \in Observed, q \in Procs :
        /\ track[p] # track[q]
        /\ loc[p].pc = "auth_wait" /\ loc[q].pc = "auth_wait"
        /\ lock[track[p]] = p /\ lock[track[q]] = q
        /\ AuthCalls(loc[p]) = 1

\* A step in which caller p clears the cached token.
ClearStep(p) == \E d \in DeleteOutcomes : ClearCachedToken(p, d)

\* C28 as stated: after _clear_cached_token the token in memory is absent with
\* expiry 0 and the persisted file does not exist, a get_access_token that
\* follows returns nothing, and the clearing raises nothing.
C28_ClearLeavesNothing ==
    [][\A p \in Observed :
        /\ ClearStep(p)
             => /\ access_token' = NoToken /\ expires_at' = 0
                /\ file' = NoFile
                /\ loc'[p].err = "none"
        /\ (GetStep(p) /\ loc[p].op = "clear" /\ access_token = NoToken /\ file = NoFile)
             => loc'[p].ret = NoToken /\ loc'[p].err = "none"]_vars

\* C28, amended: _clear_cached_token raises nothing and leaves the token in
\* memory absent with expiry 0; the file is gone when there was none or the
\* deletion succeeded, and is left as it was when the deletion failed.  A
\* get_access_token that follows finds no file and returns nothing, with
\* memory still empty, or finds the file that could not be deleted and returns
\* its token if the record has not expired.
C28_ClearCachedToken ==
    [][\A p \in Observed :
        /\ \A d \in DeleteOutcomes :
             ClearCachedToken(p, d)
             => /\ access_token' = NoToken /\ expires_at' = 0
                /\ loc'[p].err = "none"
                /\ file' = IF d = "deleted" THEN NoFile ELSE file
        /\ (GetStep(p) /\ loc[p].op = "clear" /\ access_token = NoToken)
             => /\ file = NoFile
                     => /\ loc'[p].ret = NoToken /\ loc'[p].err = "none"
                        /\ access_token' = NoToken /\ expires_at' = 0
                /\ Adoptable(file, now)
                     => /\ loc'[p].ret = file.access_token
                        /\ access_token' = file.access_token
                        /\ expires_at' = file.expires_at]_vars

\* The token this process was granted and saved has been cleared from memory
\* and its file deleted.
C28_Witness ==
    \E p \in Observed :
        /\ loc[p].op = "clear" /\ loc[p].err = "none"
        /\ access_token = NoToken /\ expires_at = 0
        /\ file = NoFile /\ issued > 0

\* A step in which caller p calls get or async_get with key k.
CacheGetStep(p, k) == CacheGet(p, k) \/ CacheAsyncGet(p, k)

\* C29: get and async_get of a key return the value of the last set or
\* async_set of that key while its age, counted from that last set, is within
\* the TTL, whatever was set before; for a key that was never set they return
\* nothing.
C29_SetThenGet ==
    [][\A p \in Observed, k \in ProductIds :
        CacheGetStep(p, k)
        => LET s == loc[p].sets[k] IN
             /\ ~s.set => loc'[p].value = NoValue
             /\ (s.set /\ now - s.timestamp <= offer_cache.ttl)
                  => loc'[p].value = s.value]_vars

\* A get returns the value of the second set of its key, another value than
\* the first, at a time when the TTL counted from the first set has passed.
C29_Witness ==
    \E p \in Observed :
        LET s == loc[p].sets[loc[p].key] IN
        /\ loc[p].call \in {"get", "async_get"} /\ loc[p].key \in ProductIds
        /\ s.replaced /\ s.prior # s.value
        /\ loc[p].value = s.value
        /\ now - s.first > offer_cache.ttl

\* A step in which caller p starts an auth flow.
FlowStep(p) == AuthFlow(p) \/ AsyncAuthFlow(p)

\* token.json holds a record that has not expired and was saved by a manager
\* with another refresh credential.
ForeignOnFile == Adoptable(file, now) /\ file.access_token = ForeignToken

\* Memory is empty and that record is there to be loaded.
ForeignToLoad == access_token = NoToken /\ ForeignOnFile

\* The manager has adopted such a record and it has not expired.
ForeignInMemory == access_token = ForeignToken /\ now < expires_at

\* C30: a manager adopts a non-expired record that a manager with another
\* refresh credential saved, when it is constructed and when get_access_token
\* finds its memory empty, and an auth flow sends its request with that token
\* and without any refresh or call of the auth endpoint.
C30_ForeignTokenAdopted ==
    [][\A p \in Observed :
        /\ (TokenManagerInit(p) /\ ForeignOnFile)
             => /\ access_token' = ForeignToken /\ expires_at' = file.expires_at
                /\ loc'[p].err = "none"
        /\ (GetStep(p) /\ ForeignToLoad)
             => /\ loc'[p].ret = ForeignToken /\ loc'[p].err = "none"
                /\ access_token' = ForeignToken /\ expires_at' = file.expires_at
        /\ (FlowStep(p) /\ (ForeignToLoad \/ ForeignInMemory))
             => /\ loc'[p].pc = "sent" /\ loc'[p].bearer = ForeignToken
                /\ Count(loc'[p].log, "refresh") = 0
                /\ AuthCalls(loc'[p]) = 0
                /\ issued' = issued]_vars

\* A manager that was never issued a token has sent a request with the token
\* another manager saved.
C30_Witness ==
    \E p \in Observed :
        /\ loc[p].op = "flow" /\ loc[p].pc = "sent"
        /\ loc[p].bearer = ForeignToken /\ access_token = ForeignToken
        /\ AuthCalls(loc[p]) = 0 /\ issued = 0

\* A step in which the auth endpoint answers the refresh of caller p and the
\* refresh fails.
RefreshFails(p) ==
    loc[p].pc = "auth_wait" /\ loc'[p].pc # "auth_wait" /\ issued' = issued

\* The token in memory has not expired.
MemoryValid == access_token # NoToken /\ now < expires_at

\* C32: a refresh that fails leaves the token in memory, its expiry and the
\* persisted record as they were, and a get_access_token after a failed
\* refresh returns the token in memory if it has not expired.
C32_FailedRefreshChangesNothing ==
    [][\A p \in Procs :
        /\ RefreshFails(p)
             => /\ access_token' = access_token /\ expires_at' = expires_at
                /\ file' = file
                /\ (p \in Observed /\ loc[p].ctx = "direct") => loc'[p].err # "none"
        /\ (GetStep(p) /\ loc[p].op = "refresh" /\ loc[p].err # "none" /\ MemoryValid)
             => loc'[p].ret = access_token /\ loc'[p].err = "none"]_vars

\* A forced refresh has failed while the token in memory was valid, and the
\* token is still there and valid.
C32_Witness ==
    \E p \in Observed :
        /\ loc[p].op = "refresh" /\ loc[p].pc = "idle" /\ loc[p].err # "none"
        /\ ForcedRefreshes(loc[p]) = 1 /\ AuthCalls(loc[p]) = 1
        /\ MemoryValid /\ file = Record(access_token, expires_at)

\* C33: a flow whose get_access_token returned nothing and whose non-forced
\* refresh failed sends its request without a credential and has recorded no
\* refresh; a 401 to that request starts a forced refresh, which is the second
\* call of the auth endpoint by this flow, and the request is resent, once and
\* with the new token, exactly when that second call succeeds.
C33_SecondRefreshAfterFailedFirst ==
    \A p \in Observed :
        LET l == loc[p] IN
        (PreRefreshFailed(l) /\ l.path \in {"absent", "expired"})
        => /\ l.pc # "idle" => ~l.refreshed
           /\ Len(l.log) >= 3 => l.log[3] = <<"res", NoToken, "">>
           /\ l.resp1 = HTTP_UNAUTHORIZED
                => /\ Len(l.log) >= 4
                   /\ l.log[4] = <<"refresh", 1, "">>
                   /\ Len(l.log) >= 5 => l.log[5][1] = "auth"
           /\ (FlowDone(l) /\ l.resp1 = HTTP_UNAUTHORIZED)
                => /\ AuthCalls(l) = 2
                   /\ ResCalls(l) = IF l.log[5][3] = "ok" THEN 2 ELSE 1
                   /\ l.log[5][3] = "ok"
                        => /\ l.log[6] = <<"res", l.log[5][2], "">>
                           /\ l.log[5][2] # NoToken
                           /\ l.returned = 2
                   /\ l.log[5][3] # "ok" => l.returned = 1 /\ l.err = "none"
           /\ (FlowDone(l) /\ l.resp1 # HTTP_UNAUTHORIZED) => AuthCalls(l) = 1

\* A flow has called the auth endpoint twice: its non-forced refresh failed,
\* the request without credential got 401, the forced refresh succeeded and
\* the request was resent with the new token.
C33_Witness ==
    \E p \in Observed :
        /\ PreRefreshFailed(loc[p]) /\ loc[p].path = "absent" /\ FlowDone(loc[p])
        /\ AuthCalls(loc[p]) = 2 /\ ResCalls(loc[p]) = 2
        /\ loc[p].returned = 2 /\ loc[p].log[6][2] = access_token

\* The entry of product k holds the empty list.
EmptyCached(k) ==
    offer_cache.cache[k].present /\ offer_cache.cache[k].value = List(<<>>)

\* C40: a get_offers that fetched an empty list stores it like any other
\* list, and a get_offers for a product whose entry holds the empty list and
\* is no older than the TTL returns the empty list from the cache, without a
\* request to the offers endpoint.
C40_EmptyListIsAHit ==
    [][\A p \in Observed, k \in ProductIds :
        /\ (OffersEnd(p) /\ loc[p].key = k /\ loc'[p].err = "none"
                /\ loc'[p].value = List(<<>>))
             => offer_cache'.cache[k] =
                   [present |-> TRUE, value |-> List(<<>>), timestamp |-> now]
        /\ (GetOffers(p, k) /\ EmptyCached(k) /\ Age(k) <= offer_cache.ttl)
             => /\ Hit(loc'[p], k, List(<<>>))
                /\ Requests(loc'[p]) = 0 /\ loc'[p].log = <<>>
                /\ offer_cache' = offer_cache]_vars

\* The empty list was returned from the cache.
C40_Witness ==
    \E p \in Observed, k \in ProductIds :
        EmptyCached(k) /\ Hit(loc[p], k, List(<<>>))

\* C38: when no operation is in progress, memory holds no token and expiry 0,
\* or a token with the expiry of the refresh or of the record it came from;
\* no token never goes with an expiry other than 0, whatever token.json
\* holds.
C38_MemoryPairConsistent ==
    (\A p \in Procs : loc[p].pc = "idle")
    => /\ access_token = NoToken => expires_at = 0
       /\ access_token = ForeignToken => expires_at \in ForeignExpiries
       /\ access_token \in 1..issued
            => expires_at \in token_ttl_seconds..(now + token_ttl_seconds)

\* Caller p is inside refresh_access_token and has not entered the lock.
AtLock(p) == loc[p].pc = "call_refresh"

\* C35 as stated: a lock is held only by a caller whose refresh is waiting for
\* the auth endpoint, and every caller that waits for a lock gets it and
\* finishes its operation.
C35_EveryWaiterCompletes ==
    /\ [](\A t \in Tracks : lock[t] # 0
             => loc[lock[t]].pc = "auth_wait" /\ track[lock[t]] = t)
    /\ \A p \in Procs : AtLock(p) ~> loc[p].pc = "idle"

\* C35, amended: a lock is held only by a caller whose refresh is waiting for
\* the auth endpoint, and a lock that is held is released, whether the
\* refresh returns or raises; a caller waiting for the lock of the
\* asynchronous track gets it and finishes its operation.
C35_LockReleasedAsyncWaiterCompletes ==
    /\ [](\A t \in Tracks : lock[t] # 0
             => loc[lock[t]].pc = "auth_wait" /\ track[lock[t]] = t)
    /\ \A t \in Tracks : lock[t] # 0 ~> lock[t] = 0
    /\ \A p \in Procs : (AtLock(p) /\ track[p] = "async") ~> loc[p].pc = "idle"

\* A caller of the asynchronous track waits for the lock another caller holds.
C35_Witness ==
    \E p \in Procs :
        /\ AtLock(p) /\ track[p] = "async"
        /\ lock[track[p]] \notin {0, p}

\* A step in which the auth endpoint answers the refresh of caller p.
AnswerStep(p) ==
    \E o \in AuthOutcomes :
        RefreshAnswer(p, o, "written") \/ AsyncRefreshAnswer(p, o, "written")

\* C34: the request of a refresh does not go through BearerAuth: a caller
\* that holds a lock is waiting for the auth endpoint and for nothing else,
\* never for the lock it holds, and the answer of the auth endpoint lets it go
\* on, also when the refresh was started by the flow of a facade request.
C34_NoSelfDeadlock ==
    \A p \in Procs :
        /\ loc[p].pc # "reenter"
        /\ lock[track[p]] = p <=> loc[p].pc = "auth_wait"
        /\ loc[p].pc = "auth_wait" => ENABLED AnswerStep(p)

\* The flow of a facade request is in its forced refresh, holding the lock
\* and waiting for the auth endpoint.
C34_Witness ==
    \E p \in Observed :
        /\ loc[p].call \in {"get_offers", "register_product"}
        /\ loc[p].ctx = "retry" /\ loc[p].pc = "auth_wait"
        /\ lock[track[p]] = p

\* A step of _load_token_from_file that assigns to the memory of the manager.
ThreadLoadStep(p) == ThreadLoadAssign(p) \/ ThreadLoadExpiry(p)

\* Memory holds the token and the expiry of a refresh that has returned.
RefreshStored ==
    \E q \in Procs :
        /\ Record(access_token, expires_at) \in loc[q].grants
        /\ loc[q].op = "refresh" /\ loc[q].pc = "idle"

\* C36: while memory holds a token a refresh stored, the load of a
\* get_access_token that began when memory was empty changes neither the
\* token nor its expiry.
C36_LoadKeepsRefreshedToken ==
    [][\A p \in Procs :
        (ThreadLoadStep(p) /\ RefreshStored)
        => access_token' = access_token /\ expires_at' = expires_at]_vars

\* The records the refreshes of the callers were granted.
Grants == UNION { loc[p].grants : p \in Procs }

\* C39: with a writable store, the record a refresh saves holds the token
\* and the expiry of one refresh, under every interleaving of refreshes on the
\* two tracks, and when no call is in progress after a refresh the record
\* is the token and the expiry in memory.
C39_RecordOfOneRefresh ==
    /\ \A g \in Grants :
          (file.kind = "record" /\ g.access_token = file.access_token)
              => g.expires_at = file.expires_at
    /\ ((\A p \in Procs : loc[p].pc = "idle") /\ access_token \in 1..issued)
         => file = Record(access_token, expires_at)

\* C37: get and async_get return a value or absent and never fail, under
\* every interleaving of a caller of get in one thread and a caller of
\* async_get in the event loop of another; two reads of the same expired
\* entry both return absent.
C37_GetNeverFails ==
    \A p \in Procs :
        (loc[p].call \in {"get", "async_get"} /\ loc[p].pc = "idle")
            => loc[p].err = "none"

\* The number of the first n events of the trace that are the event e of
\* hook h (0: the client's own) on client c.
Upto(n, e, h, c) ==
    Cardinality({ i \in 1..n : http.trace[i] = <<e, h, c>> })

\* C31: for each exchange through the facade's client every registered
\* hook's on_request is invoked exactly once before the request is sent and
\* its on_response exactly once after the response is received, and the
\* exchange with the auth endpoint invokes no hook.
C31_HooksOncePerExchange ==
    \A h \in http.hooks :
        /\ \A i \in DOMAIN http.trace :
              /\ http.trace[i] = <<"send", 0, FacadeClient>>
                    => Upto(i, "on_request", h, "") = Upto(i, "send", 0, FacadeClient)
              /\ http.trace[i] = <<"receive", 0, FacadeClient>>
                    => Upto(i, "on_response", h, "")
                          = Upto(i - 1, "receive", 0, FacadeClient)
        /\ (\A p \in Procs : loc[p].pc \in {"idle", "hook_auth"})
              => /\ Upto(Len(http.trace), "on_request", h, "")
                      = Upto(Len(http.trace), "send", 0, FacadeClient)
                 /\ Upto(Len(http.trace), "on_response", h, "")
                      = Upto(Len(http.trace), "receive", 0, FacadeClient)

====
